---- MODULE Spec2Model ----
(***************************************************************************)
(* Model of the Metaflow flow-graph-to-Argo-workflow compiler              *)
(* (metaflow/plugins/aip/aip.py, class KubeflowPipelines).                 *)
(*                                                                         *)
(* One behaviour is one call of run_workflow_on_argo or                    *)
(* write_workflow_kind: the components are built, the pipeline function    *)
(* creates the exit-handler ops and the sensor op, walks the graph with    *)
(* build_kfp_dag, wires the dependencies, the KFP compiler turns the ops   *)
(* into a workflow, _create_workflow_yaml post-processes it and weaves the *)
(* exit handlers, and the result is written or submitted.                  *)
(***************************************************************************)
EXTENDS Integers, Sequences, FiniteSets, TLC

(* ---------------------------------------------------------------------- *)
(* Bounds of the model                                                     *)
(* ---------------------------------------------------------------------- *)
\* longest run of plain steps between start and end of a linear flow
MaxChain == 1
\* largest fan-out of a static split
MaxWidth == 2
\* deepest nesting of foreach constructs
MaxDepth == 2

\* the most decorators that retry on one step
MaxRetryDecorators == 2

(* ---------------------------------------------------------------------- *)
(* Names                                                                   *)
(*                                                                         *)
(* A name is a sequence of chunks: words and the separators "_" and "-".   *)
(* <<"exit", "_", "handler">> is the Python name exit_handler.             *)
(* ---------------------------------------------------------------------- *)
Range(s) == {s[i] : i \in DOMAIN s}

Last(s) == s[Len(s)]

Digit(i) == <<"1", "2", "3", "4", "5", "6", "7", "8", "9">>[i]

Nm(word, i) == <<word, "_", Digit(i)>>

Start == <<"start">>

End == <<"end">>

\* str.lower() on one chunk
Lower(c) ==
    CASE c = "HelloFlow" -> "helloflow"
      [] c = "Exit" -> "exit"
      [] c = "Handler" -> "handler"
      [] OTHER -> c

\* chunks made only of [-0-9a-z] once lowered: everything but "_"
IsK8sChunk(c) == c # "_"

\* kfp sanitize_k8s_name: lower-case, every run of characters outside
\* [-0-9a-z] becomes "-", runs of "-" collapse, leading and trailing "-" go.
\* Of the "-" a run is made of, the first stays, unless the run begins or
\* ends the name.
sanitize_k8s_name(name) ==
    LET replaced == [i \in DOMAIN name |->
                        IF IsK8sChunk(Lower(name[i])) THEN Lower(name[i]) ELSE "-"]
        kept == {i \in DOMAIN name :
                    \/ replaced[i] # "-"
                    \/ /\ i > 1
                       /\ replaced[i - 1] # "-"
                       /\ \E j \in (i + 1)..Len(name) : replaced[j] # "-"}
    IN [k \in 1..Cardinality(kept) |->
           replaced[CHOOSE i \in kept : Cardinality({j \in kept : j < i}) = k - 1]]

RECURSIVE RStrip(_)
\* str.rstrip('-')
RStrip(s) ==
    IF s # <<>> /\ Last(s) = "-" THEN RStrip(SubSeq(s, 1, Len(s) - 1)) ELSE s

\* Python's `sub in name` at chunk granularity
Contains(name, sub) ==
    \E i \in 1..(Len(name) - Len(sub) + 1) :
        SubSeq(name, i, i + Len(sub) - 1) = sub

ExitHandlerWord == <<"exit", "-", "handler">>

SqsHandlerName == <<"sqs", "-", "exit", "-", "handler">>

NotifyHandlerName == <<"notify", "-", "email", "-", "exit", "-", "handler">>

UdfHandlerName == <<"user", "-", "defined", "-", "exit", "-", "handler">>

SensorName == <<"s3", "_", "sensor">>

HandlerNames == {SqsHandlerName, NotifyHandlerName, UdfHandlerName}

(* ---------------------------------------------------------------------- *)
(* The input graph (metaflow.graph.FlowGraph / DAGNode)                    *)
(* ---------------------------------------------------------------------- *)
\* the nodes that point to n
TraverseInFuncs(g, n) == {p \in Range(g.nodes) : n \in Range(g.out_funcs[p])}

RECURSIVE TraverseSplitParents(_, _)
\* the splits open when the node is reached; a join still lists the split
\* it closes
TraverseSplitParents(g, n) ==
    IF TraverseInFuncs(g, n) = {} THEN <<>>
    ELSE LET p == CHOOSE q \in TraverseInFuncs(g, n) : TRUE
             sp == TraverseSplitParents(g, p)
         IN IF g.type[p] \in {"split", "foreach"} THEN Append(sp, p)
            ELSE IF g.type[p] = "join" /\ sp # <<>> THEN SubSeq(sp, 1, Len(sp) - 1)
            ELSE sp

\* the join that closes the split or foreach s
TraverseMatchingJoin(g, s) ==
    CHOOSE j \in Range(g.nodes) :
        /\ g.type[j] = "join"
        /\ TraverseSplitParents(g, j) # <<>>
        /\ Last(TraverseSplitParents(g, j)) = s

\* a graph from the list of its nodes, each [name, type, out_funcs], with
\* the fields the traversal sets on every node
MkGraph(entries) ==
    LET names == [i \in DOMAIN entries |-> entries[i].name]
        At(n) == CHOOSE i \in DOMAIN entries : entries[i].name = n
        g == [nodes |-> names,
              type |-> [n \in Range(names) |-> entries[At(n)].type],
              out_funcs |-> [n \in Range(names) |-> entries[At(n)].out_funcs]]
    IN [nodes |-> g.nodes,
        type |-> g.type,
        out_funcs |-> g.out_funcs,
        in_funcs |-> [n \in Range(names) |-> TraverseInFuncs(g, n)],
        split_parents |-> [n \in Range(names) |-> TraverseSplitParents(g, n)],
        matching_join |->
            [n \in {m \in Range(names) : g.type[m] \in {"split", "foreach"}} |->
                TraverseMatchingJoin(g, n)]]

Node(n, t, o) == [name |-> n, type |-> t, out_funcs |-> o]

\* start -> step_1 -> ... -> step_len -> end
LinearGraph(len) ==
    LET mids == [i \in 1..len |-> Nm("step", i)]
        all == <<Start>> \o mids \o <<End>>
    IN MkGraph([i \in DOMAIN all |->
            Node(all[i],
                 IF i = 1 THEN "start" ELSE IF i = Len(all) THEN "end" ELSE "linear",
                 IF i = Len(all) THEN <<>> ELSE <<all[i + 1]>>)])

\* start splits into `width` branches that a join merges
BranchGraph(width) ==
    MkGraph(<<Node(Start, "split", [i \in 1..width |-> Nm("branch", i)])>>
            \o [i \in 1..width |-> Node(Nm("branch", i), "linear", <<<<"merge">>>>)]
            \o <<Node(<<"merge">>, "join", <<End>>), Node(End, "end", <<>>)>>)

\* start -> fe_1 -> ... -> fe_depth -> body -> jn_depth -> ... -> jn_1 -> end
NestedForeachGraph(depth) ==
    MkGraph(<<Node(Start, "start", <<Nm("fe", 1)>>)>>
            \o [i \in 1..depth |->
                  Node(Nm("fe", i), "foreach",
                       IF i = depth THEN <<<<"body">>>> ELSE <<Nm("fe", i + 1)>>)]
            \o <<Node(<<"body">>, "linear", <<Nm("jn", depth)>>)>>
            \o [k \in 1..depth |->
                  LET i == depth + 1 - k
                  IN Node(Nm("jn", i), "join",
                          IF i = 1 THEN <<End>> ELSE <<Nm("jn", i - 1)>>)]
            \o <<Node(End, "end", <<>>)>>)

\* a foreach whose body is a static split: the inner join leads to the
\* foreach join
ForeachSplitGraph(width) ==
    MkGraph(<<Node(Start, "start", <<Nm("fe", 1)>>),
              Node(Nm("fe", 1), "foreach", <<<<"fork">>>>),
              Node(<<"fork">>, "split", [i \in 1..width |-> Nm("branch", i)])>>
            \o [i \in 1..width |-> Node(Nm("branch", i), "linear", <<<<"merge">>>>)]
            \o <<Node(<<"merge">>, "join", <<Nm("jn", 1)>>),
                 Node(Nm("jn", 1), "join", <<End>>),
                 Node(End, "end", <<>>)>>)

\* a static split one of whose branches is a foreach; the foreach join and
\* the other branches converge on the split's join
SplitForeachGraph(width) ==
    MkGraph(<<Node(Start, "split",
                   [i \in 1..width |-> IF i = 1 THEN Nm("fe", 1) ELSE Nm("branch", i)]),
              Node(Nm("fe", 1), "foreach", <<<<"body">>>>),
              Node(<<"body">>, "linear", <<Nm("jn", 1)>>),
              Node(Nm("jn", 1), "join", <<<<"merge">>>>)>>
            \o [k \in 1..(width - 1) |->
                  Node(Nm("branch", k + 1), "linear", <<<<"merge">>>>)]
            \o <<Node(<<"merge">>, "join", <<End>>), Node(End, "end", <<>>)>>)

\* a static split whose join leads into a foreach: the paths that converge on
\* the inner join all lead on to the foreach and its join
BranchForeachGraph(width) ==
    MkGraph(<<Node(Start, "split", [i \in 1..width |-> Nm("branch", i)])>>
            \o [i \in 1..width |-> Node(Nm("branch", i), "linear", <<<<"merge">>>>)]
            \o <<Node(<<"merge">>, "join", <<Nm("fe", 1)>>),
                 Node(Nm("fe", 1), "foreach", <<<<"body">>>>),
                 Node(<<"body">>, "linear", <<Nm("jn", 1)>>),
                 Node(Nm("jn", 1), "join", <<End>>),
                 Node(End, "end", <<>>)>>)

\* start -> a step with the given name -> end
StepGraph(step) ==
    MkGraph(<<Node(Start, "start", <<step>>),
              Node(step, "linear", <<End>>),
              Node(End, "end", <<>>)>>)

\* the step method exit_handler_cleanup
CleanupStep == <<"exit", "_", "handler", "_", "cleanup">>

\* the well-formed graphs the upstream validator lets through, up to the bounds
Graphs ==
    {LinearGraph(len) : len \in 0..MaxChain}
    \cup {BranchGraph(w) : w \in 2..MaxWidth}
    \cup {BranchForeachGraph(w) : w \in 2..MaxWidth}
    \cup {NestedForeachGraph(d) : d \in 1..MaxDepth}
    \cup {ForeachSplitGraph(w) : w \in 2..MaxWidth}
    \cup {SplitForeachGraph(w) : w \in 2..MaxWidth}

NodesOf(g) == Range(g.nodes)

\* DAGNode.in_funcs
in_funcs(g, n) == g.in_funcs[n]

Edges(g) == {<<p, c>> \in NodesOf(g) \X NodesOf(g) : c \in Range(g.out_funcs[p])}

\* DAGNode.split_parents
split_parents(g, n) == g.split_parents[n]

\* DAGNode.matching_join of a split or foreach node
matching_join(g, s) == g.matching_join[s]

(* ---------------------------------------------------------------------- *)
(* State                                                                   *)
(* ---------------------------------------------------------------------- *)
VARIABLES
    graph,      \* self.graph
    deco,       \* the decorators of the flow and of its steps that add ops
    decorators, \* node.decorators, per step: the other step decorators
    components, \* step_name_to_aip_component
    self,       \* the fields of the KubeflowPipelines object
    call,       \* the call under way and its arguments
    pc,         \* where the call is
    stack,      \* the frames of build_kfp_dag, innermost last
    visited,    \* visited: step name -> op
    visited_resource_ops, \* visited_resource_ops: step name -> resource op
    compiled,   \* per step, how many step ops were created for it
    ops,        \* the ops of the pipeline under construction, by name
    open,       \* the ParallelFor constructs that are open, outermost first
    loops,      \* per foreach step, when its ParallelFor was opened and closed
    clock,      \* counts the ops created and the constructs opened and closed
    wired,      \* how many nodes of graph.nodes the wiring pass has done
    workflow,   \* the workflow dict, once the KFP compiler has produced it
    err,        \* the exception that ended the call, or "none"
    argo,       \* what the cluster holds: config maps and submitted workflows
    files,      \* the output files written
    version_cache,     \* metaflow_environment.version_cache
    get_version_calls, \* how often metaflow_version.get_version() was called
    env_infos,  \* what the calls of get_environment_info returned, oldest first
    client,     \* ArgoClient: the calls made and what the template lookup gave
    pod,        \* the exit handler's run: status, environment, what it sent
    shell       \* the shell that runs the package commands

vars == <<graph, deco, decorators, components, self, call, pc, stack, visited, visited_resource_ops,
          compiled, ops, open, loops, clock, wired, workflow, err, argo, files,
          version_cache, get_version_calls, env_infos, client, pod, shell>>

inputs == <<graph, deco, decorators, call>>

\* the state of the programs beside the compiler
elsewhere == <<version_cache, get_version_calls, env_infos, client, pod, shell>>

\* the state of the compiler
compiler == <<components, stack, visited, visited_resource_ops, compiled, ops, open, loops,
              clock, wired, workflow, argo, files>>

\* Python's None, where a name is expected
None == <<>>

NoWorkflow == [kind |-> "none"]

(* ---------------------------------------------------------------------- *)
(* The ops of the KFP DSL                                                  *)
(* ---------------------------------------------------------------------- *)
RECURSIVE UniqueFrom(_, _, _)
UniqueFrom(name, taken, k) ==
    LET cand == IF k = 1 THEN name ELSE name \o <<"-", Digit(k)>>
    IN IF cand \in taken THEN UniqueFrom(name, taken, k + 1) ELSE cand

\* kfp Pipeline.add_op: an op whose name is taken gets an index appended
MakeUnique(name, taken) == UniqueFrom(name, taken, 1)

\* dsl.ContainerOp / dsl.ResourceOp: created in the innermost open group
NewOp(kind, node, after, args, idx, at) ==
    [kind |-> kind, node |-> node, after |-> after, args |-> args,
     group |-> open, split_index |-> idx, seq |-> at,
     user_code_retries |-> 0, retry |-> None, tolerations |-> <<>>,
     affinity |-> None]

AddOp(table, name, op) == (name :> op) @@ table

\* an after() call that records nothing
After_Nothing(table, name, other) == table

\* op.after(other)
After(table, name, other) == [table EXCEPT ![name].after = @ \cup {other}]

HookName(child) == <<"pre", "_">> \o child

\* _create_volume: name=f"create-{step_name}-volume"
VolumeName(step_name) == <<"create", "-">> \o step_name \o <<"-", "volume">>

(* ---------------------------------------------------------------------- *)
(* The components: one AIPComponent per step, from its decorators          *)
(* ---------------------------------------------------------------------- *)
\* a step decorator: its name, what step_task_retry_count returns, and its
\* attributes
StepDecorator(name, user_code_retries, error_retries, attributes) ==
    [name |-> name, user_code_retries |-> user_code_retries,
     error_retries |-> error_retries, attributes |-> attributes]

NoAttributes == [unused |-> None]

step_task_retry_count(decorator) ==
    <<decorator.user_code_retries, decorator.error_retries>>

Max(a, b) == IF a >= b THEN a ELSE b

\* isinstance(deco, UNSUPPORTED_DECORATORS), with no decorator unsupported
IsUnsupported_Never(decorator) == FALSE

\* isinstance(deco, UNSUPPORTED_DECORATORS)
IsUnsupported(decorator) == decorator.name \in {"batch", "schedule"}

\* the first decorator of the kind, as next(..., None) finds it
FirstOf(node_decorators, name) ==
    LET found == SelectSeq(node_decorators, LAMBDA d : d.name = name)
    IN IF found # <<>> THEN found[1] ELSE None

RECURSIVE RetriesFrom(_, _, _, _)
\* the loop of _get_retries from the i-th decorator on
RetriesFrom(node_decorators, i, max_user_code_retries, max_error_retries) ==
    IF i > Len(node_decorators)
    THEN <<max_user_code_retries, max_user_code_retries + max_error_retries>>
    ELSE LET count == step_task_retry_count(node_decorators[i])
         IN RetriesFrom(node_decorators, i + 1,
                        Max(max_user_code_retries, count[1]),
                        Max(max_error_retries, count[2]))

RECURSIVE TotalsFrom(_, _, _, _)
TotalsFrom(node_decorators, i, max_user_code_retries, max_total_retries) ==
    IF i > Len(node_decorators)
    THEN <<max_user_code_retries, max_total_retries>>
    ELSE LET count == step_task_retry_count(node_decorators[i])
         IN TotalsFrom(node_decorators, i + 1,
                       Max(max_user_code_retries, count[1]),
                       Max(max_total_retries, count[1] + count[2]))

\* the total taken as the largest total of one decorator
get_retries_PerDecorator(node_decorators) == TotalsFrom(node_decorators, 1, 0, 0)

\* _get_retries: (user_code_retries, total_retries)
get_retries(node_decorators) == RetriesFrom(node_decorators, 1, 0, 0)

Digits == {"0", "1", "2", "3", "4", "5", "6", "7", "8", "9"}

\* str.isdecimal, for a string given as its characters
isdecimal(text) == text # <<>> /\ \A i \in DOMAIN text : text[i] \in Digits

\* an attribute value as its text, with whether it is a number or a string
Number(text) == [number |-> TRUE, text |-> text]

String(text) == [number |-> FALSE, text |-> text]

\* the decorators with deco.name == "retry"
retry_deco(node_decorators) == SelectSeq(node_decorators, LAMBDA d : d.name = "retry")

\* the interval of the last retry decorator
get_minutes_between_retries_Last(node_decorators) ==
    IF retry_deco(node_decorators) # <<>>
    THEN LET val == Last(retry_deco(node_decorators)).attributes.minutes_between_retries
             is_number == val.number \/ isdecimal(val.text)
         IN IF is_number THEN val.text \o <<"m">> ELSE val.text
    ELSE None

\* _get_minutes_between_retries: a string, or None
get_minutes_between_retries(node_decorators) ==
    IF retry_deco(node_decorators) # <<>>
    THEN LET val == retry_deco(node_decorators)[1].attributes.minutes_between_retries
             is_number == val.number \/ isdecimal(val.text)
         IN IF is_number THEN val.text \o <<"m">> ELSE val.text
    ELSE None

\* int() of a positive number given in tenths
int(tenths) == tenths \div 10

\* _get_retry_backoff_factor: <<n>> for the number n, or None
get_retry_backoff_factor(node_decorators) ==
    IF retry_deco(node_decorators) # <<>>
    THEN <<int(retry_deco(node_decorators)[1].attributes.retry_backoff_factor)>>
    ELSE None

\* a resource value as str() gives it: a whole number and a unit suffix
Quantity(number, unit) == <<number, unit>>

\* _to_k8s_resource_format: a memory or volume without a unit is in megabytes
to_k8s_resource_format(resource, value) ==
    IF resource \in {"memory", "volume"} /\ value[2] = ""
    THEN Quantity(value[1], "M")
    ELSE value

\* _get_resource_requirements: the attributes that are set, formatted; a
\* later resources decorator overwrites an earlier one; None is an absent key
get_resource_requirements(node_decorators) ==
    LET found == SelectSeq(node_decorators, LAMBDA d : d.name = "resources")
        Value(key) ==
            LET setting == SelectSeq(found, LAMBDA d : d.attributes[key] # None)
            IN IF setting = <<>> THEN None
               ELSE to_k8s_resource_format(key, Last(setting).attributes[key])
    IN [cpu |-> Value("cpu"), memory |-> Value("memory"), gpu |-> Value("gpu")]

\* build_aip_component, for a step without an unsupported decorator
build_aip_component(node) ==
    [step_name |-> node,
     resource_requirements |-> get_resource_requirements(decorators[node]),
     accelerator_decorator |-> FirstOf(decorators[node], "accelerator"),
     interruptible_decorator |-> FirstOf(decorators[node], "interruptible"),
     total_retries |-> get_retries(decorators[node])[2],
     minutes_between_retries |-> get_minutes_between_retries(decorators[node]),
     retry_backoff_factor |-> get_retry_backoff_factor(decorators[node])]

\* kfp's _get_cpu_number, in thousandths of a vCPU
get_cpu_number(cpu_string) ==
    IF cpu_string[2] = "m" THEN cpu_string[1] ELSE cpu_string[1] * 1000

\* kfp's _get_resource_number, in megabytes: a number without a unit is a
\* number of bytes
get_resource_number(resource_string) ==
    IF resource_string[2] = "G" THEN resource_string[1] * 1000
    ELSE IF resource_string[2] = "M" THEN resource_string[1]
    ELSE resource_string[1] \div 1000000

Toleration(key, value) ==
    [effect |-> "NoSchedule", key |-> key, operator |-> "Equal", value |-> value]

\* a V1NodeSelectorRequirement whose values are the one value
NodeSelectorRequirement(key, value) ==
    [key |-> key, operator |-> "In", values |-> <<value>>]

\* the toleration given only when both thresholds are reached
create_resource_based_node_type_toleration_Both(cpu, memory) ==
    IF memory >= 16 * 1000 /\ cpu >= 8 * 1000
    THEN <<Toleration("node.k8s.zgtools.net/purpose", <<"high-memory">>)>>
    ELSE <<>>

\* _create_resource_based_node_type_toleration: the toleration, in a list, or
\* none; cpu in thousandths of a vCPU, memory in megabytes
create_resource_based_node_type_toleration(cpu, memory) ==
    LET memory_threshold == 16 * 1000
        cpu_threshold == 8 * 1000
    IN IF memory >= memory_threshold \/ cpu >= cpu_threshold
       THEN <<Toleration("node.k8s.zgtools.net/purpose", <<"high-memory">>)>>
       ELSE <<>>

\* what add_toleration and add_affinity have put on the op
Scheduling(tolerations, affinity_match_expressions) ==
    [tolerations |-> tolerations,
     affinity |-> IF Len(affinity_match_expressions) > 0
                  THEN affinity_match_expressions ELSE None]

\* the spot terms put in place of the accelerator's
set_container_resources_SpotOnly(aip_component) ==
    IF aip_component.interruptible_decorator # None
    THEN Scheduling(
            <<Toleration("node.k8s.zgtools.net/capacity-type", <<"spot">>)>>,
            <<NodeSelectorRequirement("node.k8s.zgtools.net/capacity-type",
                                      <<"spot">>)>>)
    ELSE IF /\ aip_component.accelerator_decorator # None
            /\ aip_component.accelerator_decorator.attributes.type # None
    THEN LET accelerator_type == aip_component.accelerator_decorator.attributes.type
         IN Scheduling(
               <<Toleration("k8s.amazonaws.com/accelerator", accelerator_type)>>,
               <<NodeSelectorRequirement("k8s.amazonaws.com/accelerator",
                                         accelerator_type)>>)
    ELSE Scheduling(<<>>, <<>>)

\* _set_container_resources: the tolerations and the node affinity
set_container_resources(aip_component) ==
    LET resource_requirements == aip_component.resource_requirements
        accelerator_type ==
            IF aip_component.accelerator_decorator # None
            THEN aip_component.accelerator_decorator.attributes.type
            ELSE None
        zero == Quantity(0, "")
        first_tolerations ==
            IF aip_component.accelerator_decorator # None
            THEN IF accelerator_type # None
                 THEN <<Toleration("k8s.amazonaws.com/accelerator", accelerator_type)>>
                 ELSE <<>>
            ELSE IF resource_requirements.gpu = None
            THEN create_resource_based_node_type_toleration(
                    get_cpu_number(IF resource_requirements.cpu # None
                                   THEN resource_requirements.cpu ELSE zero),
                    get_resource_number(IF resource_requirements.memory # None
                                        THEN resource_requirements.memory ELSE zero))
            ELSE <<>>
        first_expressions ==
            IF accelerator_type # None
            THEN <<NodeSelectorRequirement("k8s.amazonaws.com/accelerator",
                                           accelerator_type)>>
            ELSE <<>>
    IN IF aip_component.interruptible_decorator # None
       THEN Scheduling(
               Append(first_tolerations,
                      Toleration("node.k8s.zgtools.net/capacity-type", <<"spot">>)),
               Append(first_expressions,
                      NodeSelectorRequirement("node.k8s.zgtools.net/capacity-type",
                                              <<"spot">>)))
       ELSE Scheduling(first_tolerations, first_expressions)

\* ContainerOp.set_retry, when total_retries is positive
Retry(aip_component) ==
    IF aip_component.total_retries > 0
    THEN [limit |-> aip_component.total_retries,
          policy |-> "Always",
          backoff_duration |-> aip_component.minutes_between_retries,
          backoff_factor |-> aip_component.retry_backoff_factor]
    ELSE None

(* ---------------------------------------------------------------------- *)
(* build_kfp_dag                                                           *)
(* ---------------------------------------------------------------------- *)
Frame(node, idx, prev_op, prev_out) ==
    [node |-> node,
     passed_in_split_indexes |-> idx,
     preceding_kfp_component_op |-> prev_op,
     preceding_component_outputs_dict |-> prev_out,
     at |-> "enter",
     i |-> 1,
     next_aip_component_op |-> None,
     next_preceding_component_outputs_dict |-> None]

Top == stack[Len(stack)]

Rest == SubSeq(stack, 1, Len(stack) - 1)

Running == pc = "walk" /\ stack # <<>>

\* the walk without its guard: every call compiles its node
AlreadyVisited_Never(node) == FALSE

\* `if node.name in visited: return`
AlreadyVisited(node) == node \in DOMAIN visited

\* AIPComponent.preceding_kfp_func of the step's component
preceding_kfp_func(step) == step \in deco.hooks

\* the walk halting at every join, whatever split it closes
IsForeachJoin_AnyJoin(step) == graph.type[step] = "join"

\* the walk halting at no join
IsForeachJoin_Never(step) == FALSE

\* the test that halts the walk at a foreach join
IsForeachJoin(step) ==
    /\ graph.type[step] = "join"
    /\ graph.type[Last(split_parents(graph, step))] = "foreach"

\* the frame returns: the walk is over when it was the outermost one
Pop ==
    /\ stack' = Rest
    /\ pc' = IF Len(stack) = 1 THEN "wire" ELSE pc

\* from the call to the point where the node's own ops exist: the
\* step op, the hook op that follows it and its volume's resource op
BuildEnter ==
    /\ Running
    /\ Top.at = "enter"
    /\ LET f == Top
           node == f.node
           outs == graph.out_funcs[node]
           hooked == \E c \in Range(outs) : preceding_kfp_func(c)
           next_comp == IF hooked THEN outs[1] ELSE None
           step_name == MakeUnique(node, DOMAIN ops)
           has_volume == node \in deco.volumes
           volume_name == MakeUnique(VolumeName(node), DOMAIN ops \cup {step_name})
           hook_name == MakeUnique(HookName(next_comp),
                                   DOMAIN ops \cup {step_name})
           aip_component == components[node]
           scheduling == set_container_resources(aip_component)
           step_op == [NewOp("step", node,
                             (IF f.preceding_kfp_component_op # None
                                THEN {f.preceding_kfp_component_op} ELSE {})
                             \cup (IF has_volume THEN {volume_name} ELSE {}),
                             IF f.preceding_component_outputs_dict # None
                               THEN {f.preceding_component_outputs_dict} ELSE {},
                             f.passed_in_split_indexes, clock + 1)
                         EXCEPT !.user_code_retries = get_retries(decorators[node])[1],
                                !.retry = Retry(aip_component),
                                !.tolerations = scheduling.tolerations,
                                !.affinity = scheduling.affinity]
           hook_op == NewOp("hook", next_comp, {step_name}, {step_name},
                            None, clock + 2)
           volume_op == NewOp("volume", node, {}, {}, None, clock + 3)
           with_step == AddOp(ops, step_name, step_op)
       IN IF AlreadyVisited(node)
          THEN /\ Pop
               /\ UNCHANGED <<visited, visited_resource_ops, compiled, ops,
                              clock, err>>
          ELSE /\ visited' = (node :> step_name) @@ visited
               /\ compiled' = [compiled EXCEPT ![node] = @ + 1]
               /\ clock' = clock + 3
               /\ IF hooked /\ ~preceding_kfp_func(next_comp)
                  THEN \* the component of out_funcs[0] has no function to call
                       /\ err' = "TypeError"
                       /\ pc' = "failed"
                       /\ ops' = with_step
                       /\ UNCHANGED <<stack, visited_resource_ops>>
                  ELSE /\ ops' = LET with_hook ==
                                    IF hooked
                                    THEN AddOp(with_step, hook_name, hook_op)
                                    ELSE with_step
                                IN IF has_volume
                                   THEN AddOp(with_hook, volume_name, volume_op)
                                   ELSE with_hook
                       /\ visited_resource_ops' =
                              IF has_volume
                              THEN (node :> volume_name) @@ visited_resource_ops
                              ELSE visited_resource_ops
                       /\ stack' = Append(Rest,
                              [f EXCEPT
                                 !.at = IF graph.type[node] = "foreach"
                                        THEN "body" ELSE "loop",
                                 !.next_aip_component_op =
                                    IF hooked THEN hook_name ELSE None,
                                 !.next_preceding_component_outputs_dict =
                                    IF hooked THEN hook_name ELSE None])
                       /\ UNCHANGED <<pc, err>>
    /\ UNCHANGED <<inputs, elsewhere, components, self, open, loops, wired, workflow, argo, files>>

\* a foreach node: the ParallelFor opens and the loop body is walked in it
ForeachBody ==
    /\ Running
    /\ Top.at = "body"
    /\ LET f == Top
           node == f.node
       IN /\ open' = Append(open, node)
          /\ loops' = [loops EXCEPT ![node].opened = clock + 1]
          /\ clock' = clock + 1
          /\ stack' = Append(Rest, [f EXCEPT !.at = "join"])
                       \o <<Frame(graph.out_funcs[node][1], node,
                                  f.next_aip_component_op,
                                  f.next_preceding_component_outputs_dict)>>
    /\ UNCHANGED <<inputs, elsewhere, components, self, pc, visited, visited_resource_ops, compiled,
                   ops, wired, workflow, err, argo, files>>

\* the ParallelFor closes and the matching join is walked in the context
\* the foreach node was called with
ForeachJoin ==
    /\ Running
    /\ Top.at = "join"
    /\ LET f == Top
           node == f.node
       IN /\ open' = SubSeq(open, 1, Len(open) - 1)
          /\ loops' = [loops EXCEPT ![node].closed = clock + 1]
          /\ clock' = clock + 1
          /\ stack' = Append(Rest, [f EXCEPT !.at = "ret"])
                       \o <<Frame(matching_join(graph, node),
                                  f.passed_in_split_indexes,
                                  f.next_aip_component_op,
                                  f.next_preceding_component_outputs_dict)>>
    /\ UNCHANGED <<inputs, elsewhere, components, self, pc, visited, visited_resource_ops, compiled,
                   ops, wired, workflow, err, argo, files>>

\* one turn of `for step in node.out_funcs`, or its end
LoopStep ==
    /\ Running
    /\ Top.at = "loop"
    /\ LET f == Top
           outs == graph.out_funcs[f.node]
       IN IF f.i > Len(outs)
          THEN Pop
          ELSE IF IsForeachJoin(outs[f.i])
          THEN Pop \* `return`: the turns that are left are not taken
          ELSE /\ stack' = Append(Rest, [f EXCEPT !.i = @ + 1])
                            \o <<Frame(outs[f.i], f.passed_in_split_indexes,
                                       f.next_aip_component_op,
                                       f.next_preceding_component_outputs_dict)>>
               /\ pc' = pc
    /\ UNCHANGED <<inputs, elsewhere, components, self, visited, visited_resource_ops, compiled, ops,
                   open, loops, clock, wired, workflow, err, argo, files>>

\* the call made for a foreach node returns once its join's call has
ForeachReturn ==
    /\ Running
    /\ Top.at = "ret"
    /\ Pop
    /\ UNCHANGED <<inputs, elsewhere, components, self, visited, visited_resource_ops, compiled, ops,
                   open, loops, clock, wired, workflow, err, argo, files>>

(* ---------------------------------------------------------------------- *)
(* kfp_pipeline_from_flow: the pipeline function                           *)
(* ---------------------------------------------------------------------- *)
\* the flow carries a user-defined exit_handler decorator
HasUdf == deco.exit_handler.present

\* the flag set whatever the handlers
ExitHandlerCreated_Always(notify, sqs_url, udf) == TRUE

\* `(notify_op or sqs_op or udf_op) is not None`: each op exists exactly
\* when its handler is configured
ExitHandlerCreated(notify, sqs_url, udf) == notify \/ sqs_url \/ udf

\* reached only for the kinds that compile the flow
CompilesFlow ==
    \/ call.method \in {"run_workflow_on_argo", "_create_workflow_yaml"}
    \/ call.kind \in {"Workflow", "WorkflowTemplate"}

\* create_kfp_pipeline_from_flow_graph up to the pipeline function:
\* _create_aip_components_from_graph builds the component of every step, or
\* raises at the first unsupported decorator
CreateComponents ==
    /\ pc = "start"
    /\ CompilesFlow
    /\ IF \E node \in NodesOf(graph) :
             \E i \in DOMAIN decorators[node] : IsUnsupported(decorators[node][i])
       THEN /\ err' = "AIPException"
            /\ pc' = "failed"
            /\ components' = components
       ELSE /\ components' = [node \in NodesOf(graph) |-> build_aip_component(node)]
            /\ pc' = "pipeline"
            /\ err' = err
    /\ UNCHANGED <<inputs, elsewhere, self, stack, visited, visited_resource_ops, compiled,
                   ops, open, loops, clock, wired, workflow, argo, files>>

HandlerOp(at) == NewOp("handler", None, {}, {}, None, at)

\* the three exit-handler ops, created as ordinary ops of the pipeline
CreateExitHandlerOps ==
    /\ pc = "pipeline"
    /\ LET with_notify ==
               IF self.notify
               THEN AddOp(ops, NotifyHandlerName, HandlerOp(clock + 1)) ELSE ops
           with_sqs ==
               IF self.sqs_url_on_error
               THEN AddOp(with_notify, SqsHandlerName, HandlerOp(clock + 2))
               ELSE with_notify
       IN ops' = IF HasUdf
                 THEN AddOp(with_sqs, UdfHandlerName, HandlerOp(clock + 3))
                 ELSE with_sqs
    /\ clock' = clock + 3
    /\ self' = [self EXCEPT !._exit_handler_created =
                    ExitHandlerCreated(self.notify, self.sqs_url_on_error, HasUdf)]
    /\ pc' = "sensor"
    /\ UNCHANGED <<inputs, elsewhere, components, stack, visited, visited_resource_ops,
                   compiled, open, loops, wired, workflow, err, argo, files>>

\* create_s3_sensor_op, then the walk starts at "start"
CreateS3SensorOp ==
    /\ pc = "sensor"
    /\ ops' = IF deco.s3_sensor
              THEN AddOp(ops, SensorName, NewOp("sensor", None, {}, {}, None, clock + 1))
              ELSE ops
    /\ clock' = clock + 1
    /\ stack' = <<Frame(Start, None, None, None)>>
    /\ pc' = "walk"
    /\ UNCHANGED <<inputs, elsewhere, components, self, visited, visited_resource_ops, compiled,
                   open, loops, wired, workflow, err, argo, files>>

\* the wiring that leaves the resource op out
WireNode_StepOnly(table, node) ==
    [table EXCEPT ![visited[node]].after =
        @ \cup {visited[p] : p \in in_funcs(graph, node)}]

\* the wiring that puts a node after every node compiled before it
WireNode_AllEarlier(table, node) ==
    [table EXCEPT ![visited[node]].after =
        @ \cup {visited[p] : p \in {q \in NodesOf(graph) :
                                      table[visited[q]].seq < table[visited[node]].seq}}]

\* the wiring that also puts every parent after the node
WireNode_BothWays(table, node) ==
    [o \in DOMAIN table |->
        IF o = visited[node]
        THEN [table[o] EXCEPT !.after =
                 @ \cup {visited[p] : p \in in_funcs(graph, node)}]
        ELSE IF o \in {visited[p] : p \in in_funcs(graph, node)}
        THEN [table[o] EXCEPT !.after = @ \cup {visited[node]}]
        ELSE table[o]]

\* the body of `for step in self.graph.nodes` for one node: the node's op,
\* and its resource op when it has one, come after each parent's op
WireNode(table, node) ==
    LET parents == {visited[p] : p \in in_funcs(graph, node)}
        step_wired == [table EXCEPT ![visited[node]].after = @ \cup parents]
    IN IF node \in DOMAIN visited_resource_ops
       THEN [step_wired EXCEPT ![visited_resource_ops[node]].after = @ \cup parents]
       ELSE step_wired

\* one turn of the wiring pass; a node the walk left out is a KeyError
WireStep ==
    /\ pc = "wire"
    /\ wired < Len(graph.nodes)
    /\ LET node == graph.nodes[wired + 1]
           parents == in_funcs(graph, node)
       IN IF parents # {} /\ ~(({node} \cup parents) \subseteq DOMAIN visited)
          THEN /\ err' = "KeyError"
               /\ pc' = "failed"
               /\ UNCHANGED <<ops, wired>>
          ELSE /\ ops' = WireNode(ops, node)
               /\ wired' = wired + 1
               /\ UNCHANGED <<pc, err>>
    /\ UNCHANGED <<inputs, elsewhere, components, self, stack, visited, visited_resource_ops, compiled,
                   open, loops, clock, workflow, argo, files>>

\* `if s3_sensor_op: visited["start"].after(s3_sensor_op)`; the pipeline
\* function returns
SensorAfter ==
    /\ pc = "wire"
    /\ wired = Len(graph.nodes)
    /\ ops' = IF deco.s3_sensor THEN After(ops, visited[Start], SensorName) ELSE ops
    /\ pc' = "compile"
    /\ UNCHANGED <<inputs, elsewhere, components, self, stack, visited, visited_resource_ops, compiled,
                   open, loops, clock, wired, workflow, err, argo, files>>

(* ---------------------------------------------------------------------- *)
(* kfp.compiler.Compiler()._create_workflow: ops to templates and tasks    *)
(* ---------------------------------------------------------------------- *)
NoWhen == [op |-> "none", rhs |-> "none"]

Task(name, deps, when) ==
    [name |-> name, template |-> name, dependencies |-> deps, when |-> when]

\* a template dict; metadata is None when the template has no "metadata"
Template(name, is_dag, tasks) ==
    [name |-> name, dag |-> is_dag, tasks |-> tasks, metadata |-> None]

\* a label or annotation key under the KFP prefix, and one under another
KfKey(word) == <<"pipelines.kubeflow.org", "/", word>>

Key(prefix, word) == <<prefix, "/", word>>

\* _get_flow_labels: the flow's name, the owner and the product
FlowLabels(flow_name) ==
    (Key("metaflow.org", "flow_name") :> flow_name)
    @@ (Key("zodiac.zillowgroup.net", "owner") :> <<"owner">>)
    @@ (Key("zodiac.zillowgroup.net", "product") :> <<"batch">>)

\* the pod labels and annotations of a container op's template: those the
\* KFP compiler adds and those _set_container_labels adds
PodMetadata(flow_name, op_name) ==
    [labels |->
        (KfKey("pipeline-sdk-type") :> <<"kfp">>)
        @@ (KfKey("enable_caching") :> <<"true">>)
        @@ (Key("aip.zillowgroup.net", "aip-wfsdk-pod") :> <<"true">>)
        @@ (Key("sidecar.istio.io", "inject") :> <<"false">>)
        @@ (Key("tags.ledger.zgtools.net", "ai-step-name") :> op_name)
        @@ FlowLabels(flow_name),
     annotations |->
        (KfKey("max_cache_staleness") :> <<"P0D">>)
        @@ (Key("metaflow.org", "step") :> op_name)]

\* the metadata the KFP compiler gives the workflow
WorkflowMetadata ==
    [labels |-> (KfKey("kfp_sdk_version") :> <<"1.8">>),
     annotations |->
        (KfKey("kfp_sdk_version") :> <<"1.8">>)
        @@ (KfKey("pipeline_compilation_time") :> <<"now">>)]

IsPrefix(p, q) == Len(p) <= Len(q) /\ SubSeq(q, 1, Len(p)) = p

\* the ParallelFor constructs that were opened, and the name of each one's
\* sub-DAG: for-loop-1, for-loop-2, ... in the order they were opened
Opened(lp) == {f \in DOMAIN lp : lp[f].opened > 0}

LoopName(lp, f) ==
    <<"for", "-", "loop", "-",
      Digit(Cardinality({g \in Opened(lp) : lp[g].opened <= lp[f].opened}))>>

\* the i-th of the names in `names`, in the order their ops were created:
\* the one with i - 1 ops of `names` created before it
NthBySeq(table, names, i) ==
    CHOOSE n \in names :
        Cardinality({m \in names : table[m].seq < table[n].seq}) = i - 1

\* the i-th of the foreach nodes of `fs`, in the order their loops were opened
NthLoop(lp, fs, i) ==
    CHOOSE f \in fs :
        Cardinality({g \in fs : lp[g].opened < lp[f].opened}) = i - 1

\* the op an op depends on: those named with after() and add_pvolumes(),
\* those whose outputs it takes, and the foreach op of every loop around it
DependsOn(table, vis, name) ==
    table[name].after \cup table[name].args
    \cup {vis[f] : f \in Range(table[name].group)}

\* the task that stands for an op in the DAG of the group `path`
TaskAt(table, lp, name, path) ==
    IF table[name].group = path THEN sanitize_k8s_name(name)
    ELSE LoopName(lp, table[name].group[Len(path) + 1])

TasksAt(table, lp, vis, path) ==
    LET inside == {n \in DOMAIN table : IsPrefix(path, table[n].group)}
    IN {Task(t,
             {TaskAt(table, lp, d, path) :
                 d \in UNION {DependsOn(table, vis, a) \cap inside :
                                a \in {n \in inside :
                                         TaskAt(table, lp, n, path) = t}}}
             \ {t},
             NoWhen) : t \in {TaskAt(table, lp, n, path) : n \in inside}}

\* the group a foreach's ParallelFor makes: the foreach op's own group, then
\* the foreach
LoopPath(table, vis, f) == Append(table[vis[f]].group, f)

KfpCompile(table, lp, vis, pipeline_name) ==
    LET entry == sanitize_k8s_name(pipeline_name)
    IN [kind |-> "Workflow",
        generateName |-> entry \o <<"-">>,
        name |-> None,
        entrypoint |-> entry,
        onExit |-> None,
        semaphore |-> None,
        metadata |-> WorkflowMetadata,
        templates |->
            <<Template(entry, TRUE, TasksAt(table, lp, vis, <<>>))>>
            \o [i \in 1..Cardinality(Opened(lp)) |->
                  Template(LoopName(lp, NthLoop(lp, Opened(lp), i)), TRUE,
                           TasksAt(table, lp, vis,
                                   LoopPath(table, vis,
                                            NthLoop(lp, Opened(lp), i))))]
            \o [i \in 1..Cardinality(DOMAIN table) |->
                  [Template(sanitize_k8s_name(NthBySeq(table, DOMAIN table, i)),
                            FALSE, {})
                     EXCEPT !.metadata =
                        PodMetadata(pipeline_name,
                                    sanitize_k8s_name(
                                        NthBySeq(table, DOMAIN table, i)))]]]

(* ---------------------------------------------------------------------- *)
(* _create_workflow_yaml                                                   *)
(* ---------------------------------------------------------------------- *)
\* the `name` argument _create_workflow_yaml is called with
YamlName ==
    IF call.method = "run_workflow_on_argo" THEN None
    ELSE IF call.method = "_create_workflow_yaml" THEN call.name
    ELSE sanitize_k8s_name(IF call.name # None THEN call.name ELSE self.name)

\* the switch on `kind`, for the kinds it knows
SetKind(wf, kind, name) ==
    IF kind = "Workflow" THEN wf
    ELSE [wf EXCEPT !.kind = "WorkflowTemplate",
                    !.name = IF name # None THEN sanitize_k8s_name(name)
                             ELSE RStrip(wf.generateName),
                    !.generateName = IF name # None THEN @ ELSE None]

\* the semaphore attached whatever the limit
SetSynchronization_Always(wf, max_run_concurrency, name) ==
    [wf EXCEPT !.semaphore =
        [name |-> sanitize_k8s_name(IF name # None THEN name ELSE self.name),
         key |-> "max_run_concurrency"]]

\* the semaphore named without sanitizing
SetSynchronization_RawName(wf, max_run_concurrency, name) ==
    IF /\ max_run_concurrency # None
       /\ max_run_concurrency[1] > 0
    THEN [wf EXCEPT !.semaphore =
            [name |-> IF name # None THEN name ELSE self.name,
             key |-> "max_run_concurrency"]]
    ELSE wf

\* `if max_run_concurrency and max_run_concurrency > 0`
SetSynchronization(wf, max_run_concurrency, name) ==
    IF /\ max_run_concurrency # None
       /\ max_run_concurrency[1] # 0
       /\ max_run_concurrency[1] > 0
    THEN [wf EXCEPT !.semaphore =
            [name |-> sanitize_k8s_name(IF name # None THEN name ELSE self.name),
             key |-> "max_run_concurrency"]]
    ELSE wf

\* the keys dropped everywhere
RemoveKeys_All(d) == <<>>

\* remove_keys: the keys that start with the KFP prefix go
RemoveKeys(d) ==
    LET kf_prefix == <<"pipelines.kubeflow.org", "/">>
    IN [k \in {key \in DOMAIN d : ~IsPrefix(kf_prefix, key)} |-> d[k]]

\* remove_annotations_labels
RemoveAnnotationsLabels(metadata) ==
    [metadata EXCEPT !.annotations = RemoveKeys(@), !.labels = RemoveKeys(@)]

\* _remove_kfp_annotations_labels: the workflow's metadata and that of
\* every template that has one
RemoveKfpAnnotationsLabels(wf) ==
    [wf EXCEPT
        !.metadata = RemoveAnnotationsLabels(@),
        !.templates = [i \in DOMAIN @ |->
                         IF @[i].metadata # None
                         THEN [@[i] EXCEPT !.metadata = RemoveAnnotationsLabels(@)]
                         ELSE @[i]]]

\* the flow labels become labels of the workflow
AddFlowLabels(wf) ==
    [wf EXCEPT !.metadata.labels = FlowLabels(self.name) @@ @]

\* the kinds _create_workflow_yaml can produce
SupportedYamlKind_Any(kind) == TRUE

SupportedYamlKind(kind) == kind \in {"Workflow", "WorkflowTemplate"}

\* the `kind` argument of _create_workflow_yaml
YamlKind == IF call.method = "run_workflow_on_argo" THEN "Workflow" ELSE call.kind

\* the pipeline function has run inside the KFP compiler, which returns the
\* workflow
CompileWorkflow ==
    /\ pc = "compile"
    /\ workflow' = KfpCompile(ops, loops, visited, self.name)
    /\ pc' = "strip"
    /\ UNCHANGED <<inputs, elsewhere, components, self, stack, visited, visited_resource_ops, compiled,
                   ops, open, loops, clock, wired, err, argo, files>>

\* the KFP labels and annotations are removed
StripKfpLabels ==
    /\ pc = "strip"
    /\ workflow' = RemoveKfpAnnotationsLabels(workflow)
    /\ pc' = "kind"
    /\ UNCHANGED <<inputs, elsewhere, components, self, stack, visited, visited_resource_ops, compiled,
                   ops, open, loops, clock, wired, err, argo, files>>

\* from the parameters to the flow labels
CreateWorkflow ==
    /\ pc = "kind"
    /\ IF SupportedYamlKind(YamlKind)
       THEN /\ workflow' =
                 AddFlowLabels(
                     SetSynchronization(SetKind(workflow, YamlKind, YamlName),
                                        call.max_run_concurrency, YamlName))
            /\ pc' = "weave"
            /\ err' = err
       ELSE /\ workflow' = workflow
            /\ pc' = "failed"
            /\ err' = "NotImplementedError"
    /\ UNCHANGED <<inputs, elsewhere, components, self, stack, visited, visited_resource_ops, compiled,
                   ops, open, loops, clock, wired, argo, files>>

\* the final statuses of a workflow
Statuses == {"Succeeded", "Failed", "Error"}

NotSucceeded == [op |-> "!=", rhs |-> "Succeeded"]

IsSucceeded == [op |-> "==", rhs |-> "Succeeded"]

\* Argo runs a task when it has no `when` or its `when` holds
WhenHolds(when, status) ==
    CASE when.op = "none" -> TRUE
      [] when.op = "!=" -> status # when.rhs
      [] when.op = "==" -> status = when.rhs

\* the notify task run whatever the status
NotifyWhen_Always(notify_on_success) == NoWhen

\* the `when` of the notify task
NotifyWhen(notify_on_success) == IF notify_on_success THEN NoWhen ELSE NotSucceeded

\* the two flags taken one for the other
UdfWhen_Swapped(on_success, on_failure) ==
    IF on_success /\ on_failure THEN NoWhen
    ELSE IF on_success THEN NotSucceeded
    ELSE IF on_failure THEN IsSucceeded
    ELSE [op |-> "raise", rhs |-> "AIPException"]

\* the `when` of the user-defined handler's task; both flags off is the error
UdfWhen(on_success, on_failure) ==
    IF on_success /\ on_failure THEN NoWhen
    ELSE IF on_success THEN IsSucceeded
    ELSE IF on_failure THEN NotSucceeded
    ELSE [op |-> "raise", rhs |-> "AIPException"]

\* `"exit-handler" not in task["name"]`
KeptInEntrypoint(task) == ~Contains(task.name, ExitHandlerWord)

\* the tasks put under the exit-handler template
ExitHandlerTasks ==
    (IF self.sqs_url_on_error THEN {Task(SqsHandlerName, {}, NotSucceeded)} ELSE {})
    \cup (IF self.notify
            THEN {Task(NotifyHandlerName, {}, NotifyWhen(self.notify_on_success))}
            ELSE {})
    \cup (IF HasUdf /\ (deco.exit_handler.on_success \/ deco.exit_handler.on_failure)
            THEN {Task(UdfHandlerName, {},
                       UdfWhen(deco.exit_handler.on_success,
                               deco.exit_handler.on_failure))}
            ELSE {})

\* the block under `if self._exit_handler_created`, as far as it gets
WeaveExitHandlers(wf) ==
    LET at == CHOOSE i \in DOMAIN wf.templates :
                  /\ wf.templates[i].name = wf.entrypoint
                  /\ \A j \in 1..(i - 1) : wf.templates[j].name # wf.entrypoint
        filtered == [wf.templates EXCEPT
                        ![at].tasks = {t \in @ : KeptInEntrypoint(t)}]
    IN [wf EXCEPT
          !.templates = Append(filtered,
                               Template(ExitHandlerWord, TRUE, ExitHandlerTasks)),
          !.onExit = ExitHandlerWord]

\* the last `else` of the flags never taken
UdfConflict_Never == FALSE

\* the user-defined handler is configured to run under no condition
UdfConflict ==
    HasUdf /\ ~deco.exit_handler.on_success /\ ~deco.exit_handler.on_failure

\* the exit handlers leave the entrypoint for the onExit DAG
Weave ==
    /\ pc = "weave"
    /\ IF self._exit_handler_created
       THEN /\ workflow' = WeaveExitHandlers(workflow)
            /\ IF UdfConflict
               THEN err' = "AIPException" /\ pc' = "failed"
               ELSE err' = err /\ pc' = "emit"
       ELSE /\ workflow' = workflow
            /\ err' = err
            /\ pc' = "emit"
    /\ UNCHANGED <<inputs, elsewhere, components, self, stack, visited, visited_resource_ops, compiled,
                   ops, open, loops, clock, wired, argo, files>>

(* ---------------------------------------------------------------------- *)
(* run_workflow_on_argo and write_workflow_kind                            *)
(* ---------------------------------------------------------------------- *)
\* `not max_run_concurrency or max_run_concurrency <= 0`
BadConcurrency(max_run_concurrency) ==
    \/ max_run_concurrency = None
    \/ max_run_concurrency[1] = 0
    \/ max_run_concurrency[1] <= 0

\* str() of a small positive number
Str(value) == Digit(value)

\* a ConfigMap made for no workflow name
ConfigMap_Unnamed(workflow_name, max_run_concurrency) ==
    [kind |-> "ConfigMap", name |-> None,
     data |-> [max_run_concurrency |-> Str(max_run_concurrency[1])]]

\* _config_map, for a limit it accepts
ConfigMap(workflow_name, max_run_concurrency) ==
    [kind |-> "ConfigMap", name |-> workflow_name,
     data |-> [max_run_concurrency |-> Str(max_run_concurrency[1])]]

\* _cron_workflow
CronWorkflow(name) ==
    [kind |-> "CronWorkflow", name |-> name, workflowTemplateRef |-> name]

\* run_workflow_on_argo after the workflow is built: the config map is made
\* and created on the cluster; the client's call may fail
CreateConfigMap ==
    /\ pc = "emit"
    /\ call.method = "run_workflow_on_argo"
    /\ \E created \in BOOLEAN :
          IF BadConcurrency(call.max_run_concurrency) \/ ~created
          THEN /\ err' = "AIPException"
               /\ pc' = "failed"
               /\ argo' = argo
          ELSE /\ argo' = [argo EXCEPT !.config_maps =
                             Append(@, ConfigMap(sanitize_k8s_name(self.name),
                                                 call.max_run_concurrency))]
               /\ pc' = "submit"
               /\ err' = err
    /\ UNCHANGED <<inputs, elsewhere, components, self, stack, visited, visited_resource_ops, compiled,
                   ops, open, loops, clock, wired, workflow, files>>

\* ArgoClient.run_workflow; the client's call may fail
RunWorkflow ==
    /\ pc = "submit"
    /\ \E ran \in BOOLEAN :
          IF ran
          THEN /\ argo' = [argo EXCEPT !.workflows = Append(@, workflow)]
               /\ pc' = "done"
               /\ err' = err
          ELSE /\ err' = "AIPException"
               /\ pc' = "failed"
               /\ argo' = argo
    /\ UNCHANGED <<inputs, elsewhere, components, self, stack, visited, visited_resource_ops, compiled,
                   ops, open, loops, clock, wired, workflow, files>>

\* write_workflow_kind, kinds Workflow and WorkflowTemplate: the file is written
WriteWorkflow ==
    /\ pc = "emit"
    /\ call.method = "write_workflow_kind"
    /\ files' = Append(files, workflow)
    /\ pc' = "done"
    /\ UNCHANGED <<inputs, elsewhere, components, self, stack, visited, visited_resource_ops, compiled,
                   ops, open, loops, clock, wired, workflow, err, argo>>

\* _create_workflow_yaml called on its own: the workflow is returned
ReturnWorkflow ==
    /\ pc = "emit"
    /\ call.method = "_create_workflow_yaml"
    /\ pc' = "done"
    /\ UNCHANGED <<inputs, elsewhere, components, self, stack, visited, visited_resource_ops, compiled,
                   ops, open, loops, clock, wired, workflow, err, argo, files>>

\* write_workflow_kind, the kinds that do not compile the flow
WriteOtherKind ==
    /\ pc = "start"
    /\ call.method = "write_workflow_kind"
    /\ ~CompilesFlow
    /\ LET sanitized_name ==
               sanitize_k8s_name(IF call.name # None THEN call.name ELSE self.name)
       IN IF call.kind = "CronWorkflow"
          THEN /\ files' = Append(files, CronWorkflow(sanitized_name))
               /\ pc' = "done"
               /\ err' = err
          ELSE IF call.kind = "ConfigMap"
          THEN IF BadConcurrency(call.max_run_concurrency)
               THEN /\ err' = "AIPException"
                    /\ pc' = "failed"
                    /\ files' = files
               ELSE /\ files' = Append(files, ConfigMap(sanitized_name,
                                                        call.max_run_concurrency))
                    /\ pc' = "done"
                    /\ err' = err
          ELSE /\ err' = "NotImplementedError"
               /\ pc' = "failed"
               /\ files' = files
    /\ UNCHANGED <<inputs, elsewhere, components, self, stack, visited, visited_resource_ops, compiled,
                   ops, open, loops, clock, wired, workflow, argo>>

(* ---------------------------------------------------------------------- *)
(* The calls the model makes                                               *)
(* ---------------------------------------------------------------------- *)
NoUdf == [present |-> FALSE, on_success |-> TRUE, on_failure |-> TRUE]

\* the exit_handler flow decorator: absent, or present with its two flags
UdfChoices ==
    {NoUdf} \cup {[present |-> TRUE, on_success |-> s, on_failure |-> f] :
                    s \in BOOLEAN, f \in BOOLEAN}

\* the step decorators that add ops: a preceding component and a volume, on
\* at most one step each
Decorations(g) ==
    {[hooks |-> h, volumes |-> v] :
        h \in {{}} \cup {{n} : n \in NodesOf(g) \ {Start}},
        v \in {{}} \cup {{n} : n \in NodesOf(g)}}

FlowNames == {<<"HelloFlow">>, <<"Exit", "_", "Handler">>}

Self(name, notify, notify_on_success, sqs_url) ==
    [name |-> name, notify |-> notify, notify_on_success |-> notify_on_success,
     sqs_url_on_error |-> sqs_url, _exit_handler_created |-> FALSE]

Call(method, kind, name, max_run_concurrency) ==
    [method |-> method, kind |-> kind, name |-> name,
     max_run_concurrency |-> max_run_concurrency]

Kinds == {"Workflow", "WorkflowTemplate", "CronWorkflow", "ConfigMap", "Pod"}

\* max_run_concurrency: absent, zero, negative, positive; a number n is <<n>>
Limits == {None, <<0>>, <<-1>>, <<2>>}

Calls ==
    {Call("run_workflow_on_argo", "Workflow", None, c) : c \in Limits}
    \cup {Call("write_workflow_kind", k, n, c) :
            k \in Kinds, n \in {None, <<"my", "_", "flow">>}, c \in Limits}
    \cup {Call("_create_workflow_yaml", k, None, <<2>>) :
            k \in {"Workflow", "CronWorkflow"}}

\* the retry decorators and the other decorators that retry
Retrying ==
    {StepDecorator("retry", 2, 0,
        [minutes_between_retries |-> Number(<<"2">>), retry_backoff_factor |-> 30]),
     StepDecorator("retry", 5, 0,
        [minutes_between_retries |-> String(<<"1", "0">>), retry_backoff_factor |-> 15]),
     StepDecorator("retry", 0, 0,
        [minutes_between_retries |-> String(<<"3", "0", "s">>), retry_backoff_factor |-> 20]),
     StepDecorator("catch", 0, 3, NoAttributes),
     StepDecorator("timeout", 1, 1, NoAttributes)}

RECURSIVE SeqsOf(_, _)
\* the sequences of at most `len` members of the set
SeqsOf(set, len) ==
    IF len = 0 THEN {<<>>}
    ELSE SeqsOf(set, len - 1)
         \cup {Append(seq, x) : seq \in SeqsOf(set, len - 1), x \in set}

\* the decorators that bear on scheduling: resources, accelerator,
\* interruptible, each at most once
SchedulingDecorators ==
    LET Resources ==
            {<<>>} \cup
            {<<StepDecorator("resources", 0, 0, [cpu |-> c, memory |-> m, gpu |-> g])>> :
                c \in {None, Quantity(7, ""), Quantity(8, ""), Quantity(7500, "m")},
                m \in {None, Quantity(15999, ""), Quantity(16000, ""),
                       Quantity(16, "G"), Quantity(500, "M")},
                g \in {None, Quantity(1, "")}}
        Accelerator ==
            {<<>>} \cup
            {<<StepDecorator("accelerator", 0, 0, [type |-> t])>> :
                t \in {None, <<"trn1">>}}
        Interruptible ==
            {<<>>, <<StepDecorator("interruptible", 0, 0, NoAttributes)>>}
    IN {r \o a \o i : r \in Resources, a \in Accelerator, i \in Interruptible}

\* a decorator this compiler refuses, alone or after another one
UnsupportedDecorators ==
    {<<StepDecorator("batch", 0, 0, NoAttributes)>>,
     <<StepDecorator("catch", 0, 3, NoAttributes),
       StepDecorator("schedule", 0, 0, NoAttributes)>>}

NoDecorators == [node \in NodesOf(graph) |-> <<>>]

\* the decorators of a step, on the smallest graph, written as a Workflow
InitComponents ==
    /\ graph = LinearGraph(0)
    /\ deco = [hooks |-> {}, volumes |-> {}, s3_sensor |-> FALSE,
               exit_handler |-> NoUdf]
    /\ self = Self(<<"HelloFlow">>, FALSE, FALSE, FALSE)
    /\ call \in {Call("write_workflow_kind", "Workflow", None, <<2>>),
                 Call("run_workflow_on_argo", "Workflow", None, <<2>>)}
    /\ \E node \in NodesOf(graph) :
       \E node_decorators \in SeqsOf(Retrying, MaxRetryDecorators)
                               \cup SchedulingDecorators
                               \cup UnsupportedDecorators :
          /\ decorators = [NoDecorators EXCEPT ![node] = node_decorators]
          /\ call.method = "run_workflow_on_argo" =>
                node_decorators \in UnsupportedDecorators

\* every graph with every decoration, written as a Workflow
InitGraphs ==
    /\ graph \in Graphs
    /\ decorators = NoDecorators
    /\ \E d \in Decorations(graph), sensor \in BOOLEAN :
          deco = [hooks |-> d.hooks, volumes |-> d.volumes,
                  s3_sensor |-> sensor, exit_handler |-> NoUdf]
    /\ \E sqs \in BOOLEAN : self = Self(<<"HelloFlow">>, FALSE, FALSE, sqs)
    /\ call = Call("write_workflow_kind", "Workflow", None, <<2>>)

\* every handler configuration and every call, on the smallest graphs
InitHandlers ==
    /\ graph \in {LinearGraph(0), NestedForeachGraph(1), StepGraph(CleanupStep)}
    /\ decorators = NoDecorators
    /\ \E udf \in UdfChoices :
          deco = [hooks |-> {}, volumes |-> {}, s3_sensor |-> FALSE,
                  exit_handler |-> udf]
    /\ \E name \in FlowNames, notify \in BOOLEAN, nos \in BOOLEAN, sqs \in BOOLEAN :
          /\ (nos => notify)
          /\ self = Self(name, notify, nos, sqs)
    /\ call \in Calls
    /\ graph # LinearGraph(0) => call.kind = "Workflow"

\* the object and the cluster before the call takes its first step
(* ---------------------------------------------------------------------- *)
(* metaflow_environment.get_environment_info: the version cache            *)
(* ---------------------------------------------------------------------- *)
MaxCalls == 3

\* what metaflow_version.get_version() may give at different moments
Versions == {<<"2.7.1">>, <<"2.7.1", "+", "ab", "(", "1234", ")">>}

\* the cache refreshed by every call
NeedsVersion_Always(cache) == TRUE

\* `if version_cache is None`
NeedsVersion(cache) == cache = None

\* one call of get_environment_info, in the one thread of the process
GetEnvironmentInfo ==
    /\ call.method = "get_environment_info"
    /\ pc = "start"
    /\ Len(env_infos) < MaxCalls
    /\ IF NeedsVersion(version_cache)
       THEN /\ \E version \in Versions : version_cache' = version
            /\ get_version_calls' = get_version_calls + 1
       ELSE UNCHANGED <<version_cache, get_version_calls>>
    /\ env_infos' = Append(env_infos, [metaflow_version |-> version_cache'])
    /\ UNCHANGED <<inputs, self, compiler, pc, err, client, pod, shell>>

(* ---------------------------------------------------------------------- *)
(* KubeflowPipelines.trigger                                               *)
(* ---------------------------------------------------------------------- *)
\* a missing template taken for one
TemplateMissing_Never(template) == template = "raises"

\* the lookup raised, or `if workflow_template is None`
TemplateMissing(template) == template \in {"raises", "none"}

\* the try block around get_workflow_template, which raises, returns None or
\* returns the template, and the test that follows it
GetWorkflowTemplate ==
    /\ call.method = "trigger"
    /\ pc = "start"
    /\ \E template \in {"raises", "none", "found"} :
          /\ client' = [client EXCEPT !.calls = Append(@, "get_workflow_template"),
                                      !.template = template]
          /\ IF TemplateMissing(template)
             THEN pc' = "failed" /\ err' = "AIPException"
             ELSE pc' = "template" /\ err' = err
    /\ UNCHANGED <<inputs, self, compiler, version_cache, get_version_calls, env_infos,
                   pod, shell>>

\* the try block around trigger_workflow_template
TriggerWorkflowTemplate ==
    /\ call.method = "trigger"
    /\ pc = "template"
    /\ \E returned \in BOOLEAN :
          /\ client' = [client EXCEPT !.calls = Append(@, "trigger_workflow_template"),
                                      !.triggered = returned]
          /\ IF returned
             THEN pc' = "done" /\ err' = err
             ELSE pc' = "failed" /\ err' = "AIPException"
    /\ UNCHANGED <<inputs, self, compiler, version_cache, get_version_calls, env_infos,
                   pod, shell>>

(* ---------------------------------------------------------------------- *)
(* aip_exit_handler: the notify and the SQS task of a run that has ended   *)
(* ---------------------------------------------------------------------- *)
EnvNames == {"METAFLOW_NOTIFY_ON_ERROR", "METAFLOW_NOTIFY_ON_SUCCESS",
             "METAFLOW_SQS_URL_ON_ERROR"}

NoEnv == [name \in EnvNames |-> None]

\* the values of --notify-on-error, --notify-on-success and --sqs-url-on-error
OptionValue(name) ==
    CASE name = "METAFLOW_NOTIFY_ON_ERROR" -> <<"oncall", "@", "example">>
      [] name = "METAFLOW_NOTIFY_ON_SUCCESS" -> <<"team", "@", "example">>
      [] name = "METAFLOW_SQS_URL_ON_ERROR" -> <<"https", "://", "sqs", "/", "queue">>

\* os.environ of the handler's pod: each variable absent or set
Environs == {[name \in EnvNames |-> IF name \in set THEN OptionValue(name) ELSE None] :
                set \in SUBSET EnvNames}

\* env_variables of _create_notify_exit_handler_op
NotifyEnvVariables ==
    [NoEnv EXCEPT !["METAFLOW_NOTIFY_ON_ERROR"] = pod.notify_on_error,
                  !["METAFLOW_NOTIFY_ON_SUCCESS"] =
                      IF self.notify_on_success THEN OptionValue("METAFLOW_NOTIFY_ON_SUCCESS")
                      ELSE None]

\* env_variables of _create_sqs_exit_handler_op: the queue's URL is not in it
SqsEnvVariables == NoEnv

\* env_variables.get(name, os.environ.get(name))
get_env(env_variables, name) ==
    IF env_variables[name] # None THEN env_variables[name] ELSE pod.environ[name]

\* Argo runs the task of that name when the workflow has it and its `when` holds
Runs(name) ==
    \E task \in ExitHandlerTasks : task.name = name /\ WhenHolds(task.when, pod.status)

\* the workflow ends with a status; self.notify_on_error is read by nothing
\* but the handler's environment, so it is drawn here
WorkflowEnds ==
    /\ call.method = "exit_handler"
    /\ pc = "start"
    /\ \E status \in Statuses, environ \in Environs,
          notify_on_error \in {None, OptionValue("METAFLOW_NOTIFY_ON_ERROR")} :
          pod' = [pod EXCEPT !.status = status, !.environ = environ,
                             !.notify_on_error = notify_on_error]
    /\ pc' = "notify"
    /\ UNCHANGED <<inputs, self, compiler, err, version_cache, get_version_calls,
                   env_infos, client, shell>>

\* exit_handler --run_email_notify; email_notify sends or raises
NotifyExitHandler ==
    /\ call.method = "exit_handler"
    /\ pc = "notify"
    /\ LET notify_on_error == get_env(NotifyEnvVariables, "METAFLOW_NOTIFY_ON_ERROR")
           notify_on_success == get_env(NotifyEnvVariables, "METAFLOW_NOTIFY_ON_SUCCESS")
           send_to == IF notify_on_success # None /\ pod.status = "Succeeded"
                      THEN notify_on_success
                      ELSE notify_on_error
       IN IF Runs(NotifyHandlerName) /\ send_to # None
          THEN \E sent \in BOOLEAN :
                  pod' = IF sent
                         THEN [pod EXCEPT !.emails = Append(@, send_to)]
                         ELSE [pod EXCEPT !.raised = @ \cup {NotifyHandlerName}]
          ELSE pod' = pod
    /\ pc' = "sqs"
    /\ UNCHANGED <<inputs, self, compiler, err, version_cache, get_version_calls,
                   env_infos, client, shell>>

\* exit_handler --run_sqs_on_error; send_sqs_message sends or raises
SqsExitHandler ==
    /\ call.method = "exit_handler"
    /\ pc = "sqs"
    /\ LET metaflow_sqs_url_on_error == get_env(SqsEnvVariables, "METAFLOW_SQS_URL_ON_ERROR")
       IN IF /\ Runs(SqsHandlerName)
             /\ metaflow_sqs_url_on_error # None
             /\ pod.status # "Succeeded"
          THEN \E sent \in BOOLEAN :
                  pod' = IF sent
                         THEN [pod EXCEPT !.messages = Append(@, metaflow_sqs_url_on_error)]
                         ELSE [pod EXCEPT !.raised = @ \cup {SqsHandlerName}]
          ELSE pod' = pod
    /\ pc' = "done"
    /\ UNCHANGED <<inputs, self, compiler, err, version_cache, get_version_calls,
                   env_infos, client, shell>>

(* ---------------------------------------------------------------------- *)
(* get_package_commands: the shell commands, joined with && by             *)
(* _get_package_commands                                                   *)
(* ---------------------------------------------------------------------- *)
MaxTry == 5

\* one try more
TriesLeft_OneMore(i) == i # None /\ i[1] <= MaxTry + 1

\* [ $i -le 5 ]; the test fails when i was never set
TriesLeft(i) == i # None /\ i[1] <= MaxTry

\* mkdir, the exports and the log of the setup, then `i=0;`: the semicolon
\* starts the loop whether or not the chain before it got as far as i=0
PackageSetup ==
    /\ call.method = "get_package_commands"
    /\ pc = "start"
    /\ \E set \in BOOLEAN : shell' = [shell EXCEPT !.i = IF set THEN <<0>> ELSE None]
    /\ pc' = "while"
    /\ UNCHANGED <<inputs, self, compiler, err, version_cache, get_version_calls,
                   env_infos, client, pod>>

\* one test of the while loop and, when it holds, one pass of its body:
\* the copy command, then `break` or `sleep 10; i=$((i+1))`
PackageDownload ==
    /\ call.method = "get_package_commands"
    /\ pc = "while"
    /\ IF TriesLeft(shell.i)
       THEN \E copied \in BOOLEAN :
               IF copied
               THEN /\ shell' = [shell EXCEPT !.attempts = @ + 1, !.job_tar = TRUE]
                    /\ pc' = "if"
               ELSE /\ shell' = [shell EXCEPT !.attempts = @ + 1, !.i = <<@[1] + 1>>]
                    /\ pc' = "while"
       ELSE /\ shell' = shell
            /\ pc' = "if"
    /\ UNCHANGED <<inputs, self, compiler, err, version_cache, get_version_calls,
                   env_infos, client, pod>>

\* if [ $i -gt 5 ]; then ... exit 1; fi
PackageCheck ==
    /\ call.method = "get_package_commands"
    /\ pc = "if"
    /\ IF shell.i # None /\ shell.i[1] > MaxTry
       THEN /\ shell' = [shell EXCEPT !.exit = <<1>>]
            /\ pc' = "failed"
            /\ err' = "exit"
       ELSE /\ shell' = shell
            /\ pc' = "tar"
            /\ err' = err
    /\ UNCHANGED <<inputs, self, compiler, version_cache, get_version_calls,
                   env_infos, client, pod>>

\* tar xf job.tar, which fails without the file and ends the && chain
PackageUnpack ==
    /\ call.method = "get_package_commands"
    /\ pc = "tar"
    /\ IF shell.job_tar
       THEN /\ shell' = [shell EXCEPT !.unpacked = TRUE]
            /\ pc' = "task"
            /\ err' = err
       ELSE /\ shell' = [shell EXCEPT !.exit = <<2>>]
            /\ pc' = "failed"
            /\ err' = "exit"
    /\ UNCHANGED <<inputs, self, compiler, version_cache, get_version_calls,
                   env_infos, client, pod>>

\* mflog 'Task is starting.' and the command of the step after the &&
PackageStart ==
    /\ call.method = "get_package_commands"
    /\ pc = "task"
    /\ shell' = [shell EXCEPT !.started = TRUE]
    /\ pc' = "done"
    /\ UNCHANGED <<inputs, self, compiler, err, version_cache, get_version_calls,
                   env_infos, client, pod>>

\* the programs beside the compiler, each on the smallest flow; the exit
\* handlers with every choice of --notify, --notify-on-success and
\* --sqs-url-on-error
InitElsewhere ==
    /\ graph = LinearGraph(0)
    /\ deco = [hooks |-> {}, volumes |-> {}, s3_sensor |-> FALSE,
               exit_handler |-> NoUdf]
    /\ decorators = NoDecorators
    /\ call \in {Call(method, "none", None, None) :
                   method \in {"get_environment_info", "trigger", "exit_handler",
                               "get_package_commands"}}
    /\ self \in {Self(<<"HelloFlow">>, notify, notify_on_success, sqs_url) :
                   notify \in BOOLEAN, notify_on_success \in BOOLEAN,
                   sqs_url \in BOOLEAN}
    /\ call.method # "exit_handler" => self = Self(<<"HelloFlow">>, FALSE, FALSE, FALSE)

InitCall ==
    /\ version_cache = None
    /\ get_version_calls = 0
    /\ env_infos = <<>>
    /\ client = [calls |-> <<>>, template |-> "unknown", triggered |-> FALSE]
    /\ pod = [status |-> "none", notify_on_error |-> None, environ |-> NoEnv,
              emails |-> <<>>, messages |-> <<>>, raised |-> {}]
    /\ shell = [i |-> None, attempts |-> 0, job_tar |-> FALSE, unpacked |-> FALSE,
                started |-> FALSE, exit |-> None]
    /\ components = <<>>
    /\ pc = "start"
    /\ stack = <<>>
    /\ visited = <<>>
    /\ visited_resource_ops = <<>>
    /\ compiled = [n \in NodesOf(graph) |-> 0]
    /\ ops = <<>>
    /\ open = <<>>
    /\ loops = [n \in {m \in NodesOf(graph) : graph.type[m] = "foreach"} |->
                  [opened |-> 0, closed |-> 0]]
    /\ clock = 0
    /\ wired = 0
    /\ workflow = NoWorkflow
    /\ err = "none"
    /\ argo = [config_maps |-> <<>>, workflows |-> <<>>]
    /\ files = <<>>

Init ==
    /\ InitGraphs \/ InitHandlers \/ InitComponents \/ InitElsewhere
    /\ InitCall

\* every graph, with and without a sensor, a preceding component on the first
\* step after start and the notify handler, written as a Workflow and as a
\* WorkflowTemplate
InitWrite ==
    /\ graph \in Graphs
    /\ decorators = NoDecorators
    /\ \E hooks \in {{}, {graph.out_funcs[Start][1]}}, sensor \in BOOLEAN :
          deco = [hooks |-> hooks, volumes |-> {}, s3_sensor |-> sensor,
                  exit_handler |-> NoUdf]
    /\ \E notify \in BOOLEAN : self = Self(<<"HelloFlow">>, notify, FALSE, FALSE)
    /\ call \in {Call("write_workflow_kind", k, None, <<2>>) :
                    k \in {"Workflow", "WorkflowTemplate"}}
    /\ InitCall

Next ==
    \/ CreateComponents
    \/ CreateExitHandlerOps
    \/ CreateS3SensorOp
    \/ BuildEnter
    \/ ForeachBody
    \/ ForeachJoin
    \/ LoopStep
    \/ ForeachReturn
    \/ WireStep
    \/ SensorAfter
    \/ CompileWorkflow
    \/ StripKfpLabels
    \/ CreateWorkflow
    \/ Weave
    \/ CreateConfigMap
    \/ RunWorkflow
    \/ WriteWorkflow
    \/ ReturnWorkflow
    \/ WriteOtherKind
    \/ GetEnvironmentInfo
    \/ GetWorkflowTemplate
    \/ TriggerWorkflowTemplate
    \/ WorkflowEnds
    \/ NotifyExitHandler
    \/ SqsExitHandler
    \/ PackageSetup
    \/ PackageDownload
    \/ PackageCheck
    \/ PackageUnpack
    \/ PackageStart

Spec == Init /\ [][Next]_vars

\* the shell that runs the package commands
InitPackage ==
    /\ InitElsewhere
    /\ call.method = "get_package_commands"
    /\ InitCall

\* the steps of write_workflow_kind for a Workflow or a WorkflowTemplate, and
\* the commands of the shell
NextLive ==
    \/ CreateComponents
    \/ CreateExitHandlerOps
    \/ CreateS3SensorOp
    \/ BuildEnter
    \/ ForeachBody
    \/ ForeachJoin
    \/ LoopStep
    \/ ForeachReturn
    \/ WireStep
    \/ SensorAfter
    \/ CompileWorkflow
    \/ StripKfpLabels
    \/ CreateWorkflow
    \/ Weave
    \/ WriteWorkflow
    \/ PackageSetup
    \/ PackageDownload
    \/ PackageCheck
    \/ PackageUnpack
    \/ PackageStart

\* a call, once made, runs on until it returns or raises: the interpreter
\* takes the next step of the call whenever there is one, and the shell runs
\* its next command once the one before has returned
SpecLive == (InitWrite \/ InitPackage) /\ [][NextLive]_vars /\ WF_vars(NextLive)

(* ---------------------------------------------------------------------- *)
(* Properties of the walk                                                  *)
(* ---------------------------------------------------------------------- *)
\* the walk started at "start" has returned to the pipeline function
WalkReturned ==
    /\ CompilesFlow
    /\ pc \notin {"start", "pipeline", "sensor", "walk"}
    /\ DOMAIN components # {}
    /\ err # "TypeError"

Foreaches == {n \in NodesOf(graph) : graph.type[n] = "foreach"}

\* the step ops created for a node
StepOpsOf(n) == {o \in DOMAIN ops : ops[o].kind = "step" /\ ops[o].node = n}

\* the step op the visited table holds for a node
StepOf(n) == ops[visited[n]]

\* C1: the matching join of every foreach node is compiled into exactly one
\* step node: never more than one while the walk runs, and exactly one once
\* the walk has returned, however many paths lead into the join
C1_ForeachJoinCompiledOnce ==
    \A f \in Foreaches :
        LET j == matching_join(graph, f)
        IN /\ compiled[j] <= 1
           /\ Cardinality(StepOpsOf(j)) = compiled[j]
           /\ WalkReturned => compiled[j] = 1

\* a foreach join that an inner join leads into has been compiled, once
C1_Witness ==
    /\ WalkReturned
    /\ \E f \in Foreaches :
          /\ compiled[matching_join(graph, f)] = 1
          /\ \E p \in in_funcs(graph, matching_join(graph, f)) :
                graph.type[p] = "join"

\* C2: once the walk has returned, visited holds one step op for every node
\* of graph.nodes, each compiled exactly once, and the wiring pass never
\* fails on a missing node
C2_VisitedEveryNodeOnce ==
    /\ WalkReturned =>
          /\ DOMAIN visited = NodesOf(graph)
          /\ \A n \in NodesOf(graph) :
                /\ compiled[n] = 1
                /\ StepOpsOf(n) = {visited[n]}
    /\ err # "KeyError"

\* the wiring pass went through a graph in which paths converge
C2_Witness ==
    /\ pc = "compile"
    /\ wired = Len(graph.nodes)
    /\ DOMAIN visited = NodesOf(graph)
    /\ \E n \in NodesOf(graph) : Cardinality(in_funcs(graph, n)) >= 2

\* the nodes lying between a foreach and its matching join
Between(f) ==
    {n \in NodesOf(graph) :
        /\ f \in Range(split_parents(graph, n))
        /\ n # matching_join(graph, f)}

\* the matching join of f is compiled after f's construct has closed,
\* outside it, in the context f itself was compiled in
JoinInOuterContext(f) ==
    LET j == matching_join(graph, f)
    IN j \in DOMAIN visited =>
          /\ loops[f].closed > 0
          /\ StepOf(j).seq > loops[f].closed
          /\ f \notin Range(StepOf(j).group)
          /\ StepOf(j).group = StepOf(f).group
          /\ StepOf(j).split_index = StepOf(f).split_index

\* n is compiled while f's construct is open, inside it
InsideConstruct(f, n) ==
    /\ f \in Range(StepOf(n).group)
    /\ loops[f].opened > 0
    /\ StepOf(n).seq > loops[f].opened
    /\ loops[f].closed > 0 => StepOf(n).seq < loops[f].closed

\* C3 as stated: every node between a foreach and its matching join is
\* compiled inside the foreach's construct with that construct's split
\* index, and the join after the construct closed, in the outer context
C3_AsStated ==
    \A f \in Foreaches :
        /\ \A n \in Between(f) \cap DOMAIN visited :
              /\ InsideConstruct(f, n)
              /\ StepOf(n).split_index = f
        /\ JoinInOuterContext(f)

\* C3: every node between a foreach and its matching join is compiled inside
\* the foreach's construct, with the split index of the innermost construct
\* open around the node (the foreach's own index when no nested construct
\* is); the matching join is compiled after the construct closed, outside
\* it, with the split-index context of the foreach node
C3_InnermostSplitIndex ==
    \A f \in Foreaches :
        /\ \A n \in Between(f) \cap DOMAIN visited :
              /\ InsideConstruct(f, n)
              /\ StepOf(n).split_index = Last(StepOf(n).group)
        /\ JoinInOuterContext(f)

\* a nested foreach is compiled through: a node of the inner body carries the
\* inner construct's index, and the outer join has been compiled
C3_Witness ==
    \E f \in Foreaches :
        /\ matching_join(graph, f) \in DOMAIN visited
        /\ \E n \in Between(f) \cap DOMAIN visited :
              /\ f \in Range(StepOf(n).group)
              /\ StepOf(n).split_index # f

(* ---------------------------------------------------------------------- *)
(* Properties of the wiring pass and of the compiled DAG                   *)
(* ---------------------------------------------------------------------- *)
\* the wiring pass has gone through every node of graph.nodes
Wired == wired = Len(graph.nodes)

\* C4: after the wiring pass, for every edge parent -> child of the graph
\* the child's step op comes after the parent's, and so does the child's
\* volume op when it has one
C4_ChildAfterParent ==
    Wired =>
        \A e \in Edges(graph) :
            /\ visited[e[1]] \in StepOf(e[2]).after
            /\ e[2] \in DOMAIN visited_resource_ops =>
                  visited[e[1]] \in ops[visited_resource_ops[e[2]]].after

\* the wiring pass is over for a graph in which a child with a parent has
\* a volume op
C4_Witness ==
    /\ Wired
    /\ \E e \in Edges(graph) :
          /\ e[2] \in DOMAIN visited_resource_ops
          /\ visited[e[1]] \in ops[visited_resource_ops[e[2]]].after

\* the workflow dict exists
Compiled == workflow.kind # "none"

\* the workflow holds the DAG as the pipeline function compiled it: no exit
\* handler has been woven into it
CompiledDag == Compiled /\ workflow.onExit = None

\* the first template with the entrypoint's name
EntrypointTemplate ==
    workflow.templates[
        CHOOSE i \in DOMAIN workflow.templates :
            /\ workflow.templates[i].name = workflow.entrypoint
            /\ \A j \in 1..(i - 1) :
                  workflow.templates[j].name # workflow.entrypoint]

\* the dependency edges of a task list, as <<depended on, depending>>
DependencyEdges(tasks) ==
    UNION {{<<d, t.name>> : d \in t.dependencies} : t \in tasks}

\* the image of the graph's edges under the node-name mapping
EdgeImage ==
    {<<sanitize_k8s_name(visited[e[1]]), sanitize_k8s_name(visited[e[2]])>> :
        e \in Edges(graph)}

\* the tasks that stand for step nodes
StepTasks == {sanitize_k8s_name(visited[n]) : n \in DOMAIN visited}

NoSplits == \A n \in NodesOf(graph) : graph.type[n] \notin {"split", "foreach"}

\* C5 as stated: for a graph with no split or foreach node, the dependency
\* edges of the compiled DAG are exactly the image of the graph's edges
C5_AsStated ==
    (CompiledDag /\ NoSplits) =>
        DependencyEdges(EntrypointTemplate.tasks) = EdgeImage

\* C5: for a graph with no split or foreach node, the dependency edges of
\* the compiled DAG between step nodes are exactly the image of the graph's
\* edges, and every other edge has a hook, volume or sensor node at one end;
\* with none of these configured the edges are exactly the image
C5_StepEdgesAreImage ==
    (CompiledDag /\ NoSplits) =>
        LET edges == DependencyEdges(EntrypointTemplate.tasks)
        IN /\ EdgeImage \subseteq edges
           /\ \A e \in edges \ EdgeImage :
                 e[1] \notin StepTasks \/ e[2] \notin StepTasks
           /\ (deco.hooks = {} /\ deco.volumes = {} /\ ~deco.s3_sensor) =>
                 edges = EdgeImage

\* a linear graph is compiled with a hook, which adds edges of its own
C5_Witness ==
    /\ Compiled
    /\ NoSplits
    /\ Len(graph.nodes) >= 3
    /\ deco.hooks # {}
    /\ EdgeImage \subseteq DependencyEdges(EntrypointTemplate.tasks)
    /\ DependencyEdges(EntrypointTemplate.tasks) # EdgeImage

\* the ops of the main DAG
MainOps == {o \in DOMAIN ops : ops[o].kind \in {"step", "hook", "volume", "sensor"}}

RECURSIVE OpsAcyclic(_)
\* no cycle among the ops in `left`: ops that depend on none of the others
\* can always be taken away
OpsAcyclic(left) ==
    IF left = {} THEN TRUE
    ELSE LET free == {o \in left : DependsOn(ops, visited, o) \cap left = {}}
         IN IF free = {} THEN FALSE ELSE OpsAcyclic(left \ free)

RECURSIVE TasksAcyclic(_)
TasksAcyclic(tasks) ==
    IF tasks = {} THEN TRUE
    ELSE LET free == {t \in tasks :
                        t.dependencies \cap {u.name : u \in tasks} = {}}
         IN IF free = {} THEN FALSE ELSE TasksAcyclic(tasks \ free)

\* C6: the compiled main DAG (step, hook, volume and sensor nodes) has no
\* cycle and holds the image of every edge of the graph, as ops and as
\* the tasks of every DAG template of the workflow
C6_AcyclicSuperset ==
    /\ (Wired /\ pc # "wire") =>
          /\ OpsAcyclic(MainOps)
          /\ \A e \in Edges(graph) :
                visited[e[1]] \in DependsOn(ops, visited, visited[e[2]])
    /\ Compiled =>
          \A i \in DOMAIN workflow.templates :
              TasksAcyclic(workflow.templates[i].tasks)
    /\ (CompiledDag /\ Foreaches = {}) =>
          EdgeImage \subseteq DependencyEdges(EntrypointTemplate.tasks)

\* a graph with a foreach, a hook, a volume and a sensor is compiled
C6_Witness ==
    /\ Compiled
    /\ Foreaches # {}
    /\ \A k \in {"step", "hook", "volume", "sensor"} :
          \E o \in MainOps : ops[o].kind = k
    /\ OpsAcyclic(MainOps)

(* ---------------------------------------------------------------------- *)
(* Properties of the exit handlers                                         *)
(* ---------------------------------------------------------------------- *)
\* _create_workflow_yaml has returned the workflow
Emitted == CompilesFlow /\ pc \in {"emit", "submit", "done"}

\* the handlers that are configured
Configured ==
    (IF self.sqs_url_on_error THEN {SqsHandlerName} ELSE {})
    \cup (IF self.notify THEN {NotifyHandlerName} ELSE {})
    \cup (IF HasUdf THEN {UdfHandlerName} ELSE {})

\* the templates of the workflow that hold a task with this name
TemplatesWithTask(name) ==
    {i \in DOMAIN workflow.templates :
        \E t \in workflow.templates[i].tasks : t.name = name}

\* C7: in every workflow emitted with a handler configured, no exit-handler
\* task is among the entrypoint template's tasks or their dependencies; each
\* is a task of the 'exit-handler' template only, which is the onExit target
\* and differs from the entrypoint
C7_HandlersOnlyOnExit ==
    (Emitted /\ Configured # {}) =>
        /\ \A t \in EntrypointTemplate.tasks :
              /\ t.name \notin HandlerNames
              /\ t.dependencies \cap HandlerNames = {}
        /\ \A h \in Configured :
              /\ TemplatesWithTask(h) # {}
              /\ \A i \in TemplatesWithTask(h) :
                    workflow.templates[i].name = ExitHandlerWord
        /\ workflow.onExit = ExitHandlerWord
        /\ workflow.onExit # workflow.entrypoint
        /\ Cardinality({i \in DOMAIN workflow.templates :
                           workflow.templates[i].name = workflow.onExit}) = 1

\* what the KFP compiler and the steps before the weave make of the ops
BeforeWeave ==
    AddFlowLabels(
        SetSynchronization(
            SetKind(RemoveKfpAnnotationsLabels(
                        KfpCompile(ops, loops, visited, self.name)),
                    YamlKind, YamlName),
            call.max_run_concurrency, YamlName))

\* C8: with no handler configured (no notify, no SQS URL, no exit_handler
\* decorator) the weave leaves the workflow as it was compiled: no onExit,
\* no template added, the entrypoint's tasks not filtered
C8_NoHandlerNoWeave ==
    (Emitted /\ Configured = {}) =>
        /\ workflow = BeforeWeave
        /\ workflow.onExit = None
        /\ Len(workflow.templates) = Len(BeforeWeave.templates)
        /\ EntrypointTemplate.tasks = TasksAt(ops, loops, visited, <<>>)

\* a workflow is emitted for a flow with no handler
C8_Witness ==
    /\ Emitted
    /\ Configured = {}
    /\ workflow.onExit = None
    /\ EntrypointTemplate.tasks # {}

\* the statuses a workflow ends with

Always(when) == when = NoWhen

OnFailure(when) ==
    /\ when # NoWhen
    /\ \A st \in Statuses : WhenHolds(when, st) <=> st # "Succeeded"

OnSuccess(when) ==
    /\ when # NoWhen
    /\ \A st \in Statuses : WhenHolds(when, st) <=> st = "Succeeded"

\* the tasks of the template the weave appended
ExitTasks == workflow.templates[Len(workflow.templates)].tasks

\* C9: every configured handler has its task under 'exit-handler' with the
\* condition of its run condition: the SQS handler on failure; the notify
\* handler always when a success address is configured, on failure
\* otherwise; the user-defined handler always when both flags are on, on
\* success or on failure when one is
C9_WhenTranslatesCondition ==
    (Emitted /\ Configured # {}) =>
        /\ {t.name : t \in ExitTasks} = Configured
        /\ \A t \in ExitTasks :
              /\ t.name = SqsHandlerName => OnFailure(t.when)
              /\ t.name = NotifyHandlerName =>
                    IF self.notify_on_success THEN Always(t.when)
                    ELSE OnFailure(t.when)
              /\ t.name = UdfHandlerName =>
                    IF deco.exit_handler.on_success /\ deco.exit_handler.on_failure
                    THEN Always(t.when)
                    ELSE IF deco.exit_handler.on_success THEN OnSuccess(t.when)
                    ELSE OnFailure(t.when)

\* a workflow is emitted with the three handlers, the user-defined one on
\* success only and the notify one always
C9_Witness ==
    /\ Emitted
    /\ Configured = HandlerNames
    /\ \E t \in ExitTasks : t.name = UdfHandlerName /\ OnSuccess(t.when)
    /\ \E t \in ExitTasks : t.name = NotifyHandlerName /\ Always(t.when)
    /\ \E t \in ExitTasks : t.name = SqsHandlerName /\ OnFailure(t.when)

\* the exit_handler decorator is there with on_success and on_failure false
BothFlagsOff ==
    /\ deco.exit_handler.present
    /\ deco.exit_handler.on_success = FALSE
    /\ deco.exit_handler.on_failure = FALSE

\* C10: with the user-defined handler's on_success and on_failure both
\* false, a call that creates the manifest of a kind it knows ends with an
\* AIPException from the weave, and no workflow file is written, no ConfigMap
\* is created and no workflow is submitted
C10_ConflictNoManifest ==
    (BothFlagsOff /\ CompilesFlow /\ YamlKind \in {"Workflow", "WorkflowTemplate"}) =>
        /\ pc \notin {"emit", "submit", "done"}
        /\ files = <<>>
        /\ argo.config_maps = <<>>
        /\ argo.workflows = <<>>
        /\ pc = "failed" => err = "AIPException"

\* the weave has raised on the conflict
C10_Witness ==
    /\ BothFlagsOff
    /\ CompilesFlow
    /\ Compiled
    /\ pc = "failed"
    /\ err = "AIPException"
    /\ files = <<>>

(* ---------------------------------------------------------------------- *)
(* C14: a run-concurrency limit that is not positive                       *)
(* ---------------------------------------------------------------------- *)
\* the limit of the call is absent, zero or negative
NonPositiveLimit ==
    \/ call.max_run_concurrency = None
    \/ call.max_run_concurrency[1] <= 0

NoOutput == files = <<>> /\ argo = [config_maps |-> <<>>, workflows |-> <<>>]

\* C14 as the claim states it: with a limit that is not positive,
\* run_workflow_on_argo and write_workflow_kind, for each of its kinds, never
\* construct the manifest and never complete: the limit is rejected first.
C14_AsStated ==
    /\ NonPositiveLimit
    /\ call.method \in {"run_workflow_on_argo", "write_workflow_kind"}
    /\ call.kind \in {"Workflow", "WorkflowTemplate", "CronWorkflow", "ConfigMap"}
    => /\ workflow = NoWorkflow
       /\ pc # "done"
       /\ NoOutput

\* C14: a limit that is not positive is rejected only where the ConfigMap is
\* made. run_workflow_on_argo builds the whole manifest, without a semaphore,
\* and is then stopped before anything reaches the cluster;
\* write_workflow_kind of kind ConfigMap writes nothing and fails with an
\* AIPException; of kind Workflow or WorkflowTemplate it writes the manifest
\* without a semaphore; of kind CronWorkflow it writes the CronWorkflow.
C14_RejectedWhereConfigMapIsMade ==
    NonPositiveLimit =>
        /\ call.method = "run_workflow_on_argo" =>
              /\ pc \notin {"submit", "done"}
              /\ NoOutput
              /\ pc = "emit" => Compiled /\ workflow.semaphore = None
        /\ call.method = "write_workflow_kind" /\ call.kind = "ConfigMap" =>
              /\ pc # "done"
              /\ NoOutput
              /\ workflow = NoWorkflow
              /\ pc = "failed" => err = "AIPException"
        /\ /\ call.method = "write_workflow_kind"
           /\ call.kind \in {"Workflow", "WorkflowTemplate"}
           /\ pc = "done"
           => /\ files = <<workflow>>
              /\ workflow.semaphore = None
        /\ /\ call.method = "write_workflow_kind"
           /\ call.kind = "CronWorkflow"
           /\ pc = "done"
           => /\ Len(files) = 1
              /\ files[1].kind = "CronWorkflow"

\* run_workflow_on_argo with no limit was stopped after the manifest was built
C14_Witness ==
    /\ call.method = "run_workflow_on_argo"
    /\ call.max_run_concurrency = None
    /\ pc = "failed"
    /\ err = "AIPException"
    /\ ~BothFlagsOff
    /\ Compiled
    /\ workflow.semaphore = None

(* ---------------------------------------------------------------------- *)
(* C15: the semaphore and the ConfigMap                                    *)
(* ---------------------------------------------------------------------- *)
PositiveLimit ==
    /\ call.max_run_concurrency # None
    /\ call.max_run_concurrency[1] > 0

\* the reference a semaphore needs to name this ConfigMap's limit
RefTo(config_map) == [name |-> config_map.name, key |-> "max_run_concurrency"]

\* the ConfigMap write_workflow_kind writes for the name and limit of the call
ConfigMapOfCall ==
    ConfigMap(sanitize_k8s_name(IF call.name # None THEN call.name ELSE self.name),
              call.max_run_concurrency)

\* the ConfigMap holds the limit, as a string, under max_run_concurrency only
HoldsLimit(config_map) ==
    /\ config_map.kind = "ConfigMap"
    /\ DOMAIN config_map.data = {"max_run_concurrency"}
    /\ config_map.data.max_run_concurrency = Digit(call.max_run_concurrency[1])

\* C15: with a positive limit, the workflow's semaphore refers to the name and
\* to the key max_run_concurrency of the ConfigMap made for the same workflow
\* name, and that ConfigMap holds the limit: the ConfigMap created on the
\* cluster by run_workflow_on_argo, and the one write_workflow_kind writes for
\* the same name, supplied or taken from the flow.
C15_SemaphoreRefersToConfigMap ==
    PositiveLimit =>
        /\ call.method = "run_workflow_on_argo" /\ pc \in {"submit", "done"} =>
              /\ Len(argo.config_maps) = 1
              /\ workflow.semaphore = RefTo(argo.config_maps[1])
              /\ HoldsLimit(argo.config_maps[1])
        /\ call.method = "run_workflow_on_argo" /\ pc = "done" =>
              /\ Len(argo.workflows) = 1
              /\ argo.workflows[1].semaphore = RefTo(argo.config_maps[1])
        /\ /\ call.method = "write_workflow_kind"
           /\ call.kind \in {"Workflow", "WorkflowTemplate"}
           /\ pc = "done"
           => /\ files[1].semaphore = RefTo(ConfigMapOfCall)
              /\ HoldsLimit(ConfigMapOfCall)
        /\ /\ call.method = "write_workflow_kind"
           /\ call.kind = "ConfigMap"
           /\ pc = "done"
           => /\ files = <<ConfigMapOfCall>>
              /\ HoldsLimit(files[1])

\* a run on the cluster of a flow whose name is not a Kubernetes name
C15_Witness ==
    /\ PositiveLimit
    /\ call.method = "run_workflow_on_argo"
    /\ pc = "done"
    /\ sanitize_k8s_name(self.name) # self.name
    /\ workflow.semaphore.name = argo.config_maps[1].name

(* ---------------------------------------------------------------------- *)
(* C16: the kinds that are not known                                      *)
(* ---------------------------------------------------------------------- *)
UnknownKind ==
    \/ /\ call.method = "write_workflow_kind"
       /\ call.kind \notin {"Workflow", "WorkflowTemplate", "CronWorkflow", "ConfigMap"}
    \/ /\ call.method = "_create_workflow_yaml"
       /\ call.kind \notin {"Workflow", "WorkflowTemplate"}

\* C16: a kind write_workflow_kind does not know, or one that
\* _create_workflow_yaml does not know, raises NotImplementedError: the call
\* never completes, it fails with no other error, and no file is written.
C16_UnknownKindNotImplemented ==
    UnknownKind =>
        /\ files = <<>>
        /\ pc \notin {"weave", "emit", "submit", "done"}
        /\ pc = "failed" => err = "NotImplementedError"

\* _create_workflow_yaml was asked for a CronWorkflow
C16_Witness ==
    /\ call.method = "_create_workflow_yaml"
    /\ call.kind = "CronWorkflow"
    /\ pc = "failed"
    /\ err = "NotImplementedError"
    /\ files = <<>>

(* ---------------------------------------------------------------------- *)
(* C17: the KFP labels and annotations                                     *)
(* ---------------------------------------------------------------------- *)
HasKfPrefix(key) ==
    /\ Len(key) >= 2
    /\ key[1] = "pipelines.kubeflow.org"
    /\ key[2] = "/"

\* `after` is `before` without its prefixed keys, the other keys as they were
StrippedDict(before, after) ==
    /\ DOMAIN after = {k \in DOMAIN before : ~HasKfPrefix(k)}
    /\ \A k \in DOMAIN after : after[k] = before[k]

StrippedMetadata(before, after) ==
    IF before = None THEN after = None
    ELSE /\ after # None
         /\ StrippedDict(before.labels, after.labels)
         /\ StrippedDict(before.annotations, after.annotations)

\* the dicts of labels and of annotations in the workflow
MetadataDicts(wf) ==
    {wf.metadata.labels, wf.metadata.annotations}
    \cup UNION {{wf.templates[i].metadata.labels,
                 wf.templates[i].metadata.annotations} :
                    i \in {j \in DOMAIN wf.templates :
                              wf.templates[j].metadata # None}}

HoldsFlowLabels(labels) ==
    LET flow_labels == FlowLabels(self.name)
    IN \A k \in DOMAIN flow_labels :
          k \in DOMAIN labels /\ labels[k] = flow_labels[k]

\* C17: once _remove_kfp_annotations_labels has run, and before the flow
\* labels are applied, the metadata of the workflow and of every template is
\* what the compiler produced less exactly the keys that start with
\* pipelines.kubeflow.org/, every other key and its value unchanged; the
\* workflow holds no flow label until then; from then on the workflow holds
\* every flow label, and no label or annotation of the manifest, in any
\* later step and when emitted, has a key with the prefix.
C17_StrippedBeforeFlowLabels ==
    /\ pc = "strip" =>
          /\ workflow = KfpCompile(ops, loops, visited, self.name)
          /\ ~HoldsFlowLabels(workflow.metadata.labels)
    /\ pc = "kind" =>
          LET compiler_output == KfpCompile(ops, loops, visited, self.name)
          IN /\ StrippedMetadata(compiler_output.metadata, workflow.metadata)
             /\ DOMAIN workflow.templates = DOMAIN compiler_output.templates
             /\ \A i \in DOMAIN workflow.templates :
                   /\ StrippedMetadata(compiler_output.templates[i].metadata,
                                       workflow.templates[i].metadata)
                   /\ [workflow.templates[i] EXCEPT !.metadata = None]
                        = [compiler_output.templates[i] EXCEPT !.metadata = None]
             /\ \A k \in DOMAIN FlowLabels(self.name) :
                   k \notin DOMAIN workflow.metadata.labels
    /\ pc \in {"weave", "emit", "submit", "done"} /\ CompilesFlow =>
          /\ HoldsFlowLabels(workflow.metadata.labels)
          /\ \A d \in MetadataDicts(workflow) : \A k \in DOMAIN d : ~HasKfPrefix(k)
    /\ \A i \in DOMAIN files :
          files[i].kind \in {"Workflow", "WorkflowTemplate"} =>
             /\ HoldsFlowLabels(files[i].metadata.labels)
             /\ \A d \in MetadataDicts(files[i]) : \A k \in DOMAIN d : ~HasKfPrefix(k)

\* a manifest was written whose templates lost prefixed keys and kept others
C17_Witness ==
    /\ pc = "done"
    /\ Len(files) = 1
    /\ files[1].kind = "Workflow"
    /\ LET compiler_output == KfpCompile(ops, loops, visited, self.name)
       IN \E i \in DOMAIN compiler_output.templates :
             /\ compiler_output.templates[i].metadata # None
             /\ \E k \in DOMAIN compiler_output.templates[i].metadata.labels :
                   HasKfPrefix(k)
             /\ files[1].templates[i].metadata # None
             /\ Key("sidecar.istio.io", "inject")
                   \in DOMAIN files[1].templates[i].metadata.labels
             /\ \A k \in DOMAIN files[1].templates[i].metadata.labels :
                   ~HasKfPrefix(k)

(* ---------------------------------------------------------------------- *)
(* C20: the op of a preceding component                                    *)
(* ---------------------------------------------------------------------- *)
HookOps == {h \in DOMAIN ops : ops[h].kind = "hook"}

\* the hook ops of `child` that follow the step op of `node`
HooksBetween(node, child) ==
    {h \in HookOps : ops[h].node = child /\ visited[node] \in ops[h].after}

\* C20: the walk never fails on a preceding component, and once it has
\* returned, for every compiled node and each compiled successor of it: when
\* the successor declares a preceding component, exactly one hook op, that
\* successor's, follows the node's step op and takes its inputs from it, and
\* the successor's step op follows that hook op and takes its bindings from
\* it; when the successor declares none, its step op follows no hook op and
\* takes no binding from one.
C20_HookBetweenNodeAndSuccessor ==
    /\ err # "TypeError"
    /\ WalkReturned =>
          \A node \in DOMAIN visited :
             \A child \in Range(graph.out_funcs[node]) \cap DOMAIN visited :
                IF preceding_kfp_func(child)
                THEN /\ Cardinality(HooksBetween(node, child)) = 1
                     /\ \A h \in HooksBetween(node, child) :
                           /\ ops[h].args = {visited[node]}
                           /\ h \in ops[visited[child]].after
                           /\ h \in ops[visited[child]].args
                     /\ \A h \in HookOps :
                           visited[node] \in ops[h].after => ops[h].node = child
                ELSE /\ ops[visited[child]].after \cap HookOps = {}
                     /\ ops[visited[child]].args \cap HookOps = {}

(* ---------------------------------------------------------------------- *)
(* C11: the retry counts of a component                                    *)
(* ---------------------------------------------------------------------- *)
ComponentsBuilt == DOMAIN components # {}

\* the largest member of a set of counts, 0 for none
MaxOver(counts) == CHOOSE m \in counts \cup {0} : \A x \in counts \cup {0} : m >= x

DecoratorsOf(node) == Range(decorators[node])

UserCodeRetries(node) == MaxOver({d.user_code_retries : d \in DecoratorsOf(node)})

ErrorRetries(node) == MaxOver({d.error_retries : d \in DecoratorsOf(node)})

\* the largest total of one decorator
DecoratorTotal(node) ==
    MaxOver({d.user_code_retries + d.error_retries : d \in DecoratorsOf(node)})

StepOp(node) == ops[visited[node]]

\* C11 as the claim states it: the user-code-retry count is the largest
\* user-code-retry count of a decorator, and the total-retry count is the
\* largest total-retry count of a decorator.
C11_AsStated ==
    ComponentsBuilt =>
        /\ \A node \in NodesOf(graph) :
              components[node].total_retries = DecoratorTotal(node)
        /\ \A node \in DOMAIN visited :
              StepOp(node).user_code_retries = UserCodeRetries(node)

\* C11: the user-code-retry count of a step is the largest user-code-retry
\* count of its decorators, and the component's total-retry count is that
\* number plus the largest error-retry count of its decorators, which may
\* come from another decorator; a positive total is the op's retry limit.
C11_TotalIsSumOfMaxima ==
    ComponentsBuilt =>
        /\ \A node \in NodesOf(graph) :
              components[node].total_retries
                 = UserCodeRetries(node) + ErrorRetries(node)
        /\ \A node \in DOMAIN visited :
              /\ StepOp(node).user_code_retries = UserCodeRetries(node)
              /\ IF UserCodeRetries(node) + ErrorRetries(node) > 0
                 THEN StepOp(node).retry.limit
                         = UserCodeRetries(node) + ErrorRetries(node)
                 ELSE StepOp(node).retry = None

\* a step whose counts 5 and 3 come from two decorators has been compiled
C11_Witness ==
    /\ Start \in DOMAIN visited
    /\ \E d1 \in DecoratorsOf(Start), d2 \in DecoratorsOf(Start) :
          /\ step_task_retry_count(d1) = <<5, 0>>
          /\ step_task_retry_count(d2) = <<0, 3>>
    /\ StepOp(Start).user_code_retries = 5
    /\ components[Start].total_retries = 8

(* ---------------------------------------------------------------------- *)
(* C12: the backoff of a component                                         *)
(* ---------------------------------------------------------------------- *)
RetryDecorators(node) ==
    SelectSeq(decorators[node], LAMBDA d : d.name = "retry")

\* the interval and the factor a retry decorator asks for, as the component
\* holds them: a number of minutes gets the unit m, the factor loses its
\* fraction
BackoffOf(decorator) ==
    LET minutes == decorator.attributes.minutes_between_retries
    IN [interval |-> IF minutes.number
                        \/ (minutes.text # <<>>
                            /\ \A i \in DOMAIN minutes.text : minutes.text[i] \in Digits)
                     THEN minutes.text \o <<"m">> ELSE minutes.text,
        factor |-> <<decorator.attributes.retry_backoff_factor \div 10>>]

BackoffIs(node, backoff) ==
    /\ components[node].minutes_between_retries = backoff.interval
    /\ components[node].retry_backoff_factor = backoff.factor

NoBackoff == [interval |-> None, factor |-> None]

\* C12 as the claim states it: the interval and the factor are those of the
\* last retry decorator of the step, and both are null without one.
C12_AsStated ==
    ComponentsBuilt =>
        \A node \in NodesOf(graph) :
           BackoffIs(node, IF RetryDecorators(node) = <<>> THEN NoBackoff
                           ELSE BackoffOf(Last(RetryDecorators(node))))

\* C12: the component's backoff interval and factor are those of the first
\* retry decorator in the step's decorator sequence, the interval with the
\* unit m when it is a number and the factor as a whole number; both are null
\* when the step has no retry decorator; the op's retry carries them.
C12_BackoffOfFirstRetry ==
    ComponentsBuilt =>
        /\ \A node \in NodesOf(graph) :
              BackoffIs(node, IF RetryDecorators(node) = <<>> THEN NoBackoff
                              ELSE BackoffOf(RetryDecorators(node)[1]))
        /\ \A node \in DOMAIN visited :
              StepOp(node).retry # None =>
                 /\ StepOp(node).retry.backoff_duration
                       = components[node].minutes_between_retries
                 /\ StepOp(node).retry.backoff_factor
                       = components[node].retry_backoff_factor

\* a step with two retry decorators of different backoff has its component
C12_Witness ==
    /\ ComponentsBuilt
    /\ Len(RetryDecorators(Start)) = 2
    /\ BackoffOf(RetryDecorators(Start)[1]).interval
          # BackoffOf(RetryDecorators(Start)[2]).interval
    /\ BackoffOf(RetryDecorators(Start)[1]).factor
          # BackoffOf(RetryDecorators(Start)[2]).factor
    /\ BackoffIs(Start, BackoffOf(RetryDecorators(Start)[1]))
    /\ Start \in DOMAIN visited
    /\ StepOp(Start).retry # None

(* ---------------------------------------------------------------------- *)
(* C13: an unsupported decorator                                           *)
(* ---------------------------------------------------------------------- *)
HasUnsupported ==
    \E node \in NodesOf(graph) :
       \E d \in DecoratorsOf(node) : d.name \in {"batch", "schedule"}

\* C13: when a step carries a Batch or a Schedule decorator, a call that
\* compiles the flow fails with an AIPException while the components are
\* built: no component, no op of a step or of a handler and no workflow ever
\* exists, and nothing is written, created or submitted.
C13_UnsupportedFailsFirst ==
    HasUnsupported /\ CompilesFlow =>
        /\ pc \in {"start", "failed"}
        /\ pc = "failed" => err = "AIPException"
        /\ ~ComponentsBuilt
        /\ ops = <<>>
        /\ visited = <<>>
        /\ workflow = NoWorkflow
        /\ NoOutput

\* a run on the cluster was refused for a Schedule decorator on the last step
C13_Witness ==
    /\ \E d \in DecoratorsOf(End) : d.name = "schedule"
    /\ call.method = "run_workflow_on_argo"
    /\ pc = "failed"
    /\ err = "AIPException"
    /\ ops = <<>>

(* ---------------------------------------------------------------------- *)
(* C18: accelerator and spot scheduling                                    *)
(* ---------------------------------------------------------------------- *)
\* the accelerator types the step declares
AcceleratorTypes(node) ==
    {d.attributes.type :
        d \in {a \in DecoratorsOf(node) :
                 a.name = "accelerator" /\ a.attributes.type # None}}

Interruptible(node) == \E d \in DecoratorsOf(node) : d.name = "interruptible"

MatchExpressions(op) == IF op.affinity = None THEN {} ELSE Range(op.affinity)

Tolerations(op) == Range(op.tolerations)

\* the op requires a node with this label value and tolerates its taint
Requires(op, key, value) ==
    /\ [key |-> key, operator |-> "In", values |-> <<value>>] \in MatchExpressions(op)
    /\ [effect |-> "NoSchedule", key |-> key, operator |-> "Equal", value |-> value]
          \in Tolerations(op)

\* neither a requirement nor a toleration of the op has this key
Without(op, key) ==
    /\ \A e \in MatchExpressions(op) : e.key # key
    /\ \A t \in Tolerations(op) : t.key # key

\* C18: the step op of every step requires the accelerator node label and
\* tolerates the accelerator taint, for the declared type, exactly when the
\* step declares an accelerator type, and requires the spot capacity label
\* and tolerates its taint exactly when the step is interruptible; a step
\* that is both has all four terms.
C18_AcceleratorAndSpotTerms ==
    \A node \in DOMAIN visited :
       /\ IF AcceleratorTypes(node) # {}
          THEN \A type \in AcceleratorTypes(node) :
                  Requires(StepOp(node), "k8s.amazonaws.com/accelerator", type)
          ELSE Without(StepOp(node), "k8s.amazonaws.com/accelerator")
       /\ IF Interruptible(node)
          THEN Requires(StepOp(node), "node.k8s.zgtools.net/capacity-type", <<"spot">>)
          ELSE Without(StepOp(node), "node.k8s.zgtools.net/capacity-type")

\* an interruptible step with an accelerator type has been compiled
C18_Witness ==
    /\ Start \in DOMAIN visited
    /\ AcceleratorTypes(Start) = {<<"trn1">>}
    /\ Interruptible(Start)
    /\ Cardinality(MatchExpressions(StepOp(Start))) = 2
    /\ Cardinality(Tolerations(StepOp(Start))) = 2

(* ---------------------------------------------------------------------- *)
(* C19: the toleration of the high-resource nodes                          *)
(* ---------------------------------------------------------------------- *)
\* what the step's resources decorator asks for, None when it does not
Requested(node, key) ==
    LET asking == {d \in DecoratorsOf(node) :
                     d.name = "resources" /\ d.attributes[key] # None}
    IN IF asking = {} THEN None ELSE (CHOOSE d \in asking : TRUE).attributes[key]

\* the memory asked for is 16 GB or more, a number without a unit being
\* megabytes
AtLeast16GB(memory) ==
    /\ memory # None
    /\ IF memory[2] = "G" THEN memory[1] >= 16 ELSE memory[1] >= 16000

\* the cpu asked for is 8 or more
AtLeast8Cpu(cpu) ==
    /\ cpu # None
    /\ IF cpu[2] = "m" THEN cpu[1] >= 8000 ELSE cpu[1] >= 8

HighResource(node) ==
    \/ AtLeast16GB(Requested(node, "memory"))
    \/ AtLeast8Cpu(Requested(node, "cpu"))

HighResourceToleration ==
    [effect |-> "NoSchedule", key |-> "node.k8s.zgtools.net/purpose",
     operator |-> "Equal", value |-> <<"high-memory">>]

HasAccelerator(node) == \E d \in DecoratorsOf(node) : d.name = "accelerator"

\* C19 as the claim states it: a step with memory of 16 GB or more, or 8 cpu
\* or more, has the high-resource toleration; a step below both with no
\* accelerator has not.
C19_AsStated ==
    \A node \in DOMAIN visited :
       /\ HighResource(node) => HighResourceToleration \in Tolerations(StepOp(node))
       /\ ~HighResource(node) /\ ~HasAccelerator(node) =>
             HighResourceToleration \notin Tolerations(StepOp(node))

\* C19: a step op has the high-resource toleration exactly when the step has
\* no accelerator decorator, asks for no gpu, and asks for memory of 16 GB or
\* more or for 8 cpu or more, memory without a unit counting as megabytes.
C19_HighResourceToleration ==
    \A node \in DOMAIN visited :
       HighResourceToleration \in Tolerations(StepOp(node))
          <=> /\ HighResource(node)
              /\ ~HasAccelerator(node)
              /\ Requested(node, "gpu") = None

\* a step that asks for 16000 of memory and nothing else has the toleration
C19_Witness ==
    /\ Start \in DOMAIN visited
    /\ Requested(Start, "memory") = <<16000, "">>
    /\ Requested(Start, "cpu") = None
    /\ Requested(Start, "gpu") = None
    /\ ~HasAccelerator(Start)
    /\ HighResourceToleration \in Tolerations(StepOp(Start))

(* ---------------------------------------------------------------------- *)
(* The loop over a node's out-edges                                        *)
(* ---------------------------------------------------------------------- *)
\* the out-edge that the loop over `node.out_funcs` is about to take
NextOutEdge == graph.out_funcs[Top.node][Top.i]

\* a join whose last split-ancestor is a foreach node
JoinOfForeach(step) ==
    /\ graph.type[step] = "join"
    /\ graph.type[graph.split_parents[step][Len(graph.split_parents[step])]]
          = "foreach"

RECURSIVE Upstream(_, _)
\* the ops that the ops of `frontier` depend on, directly or through others
Upstream(found, frontier) ==
    LET direct == UNION {DependsOn(ops, visited, o) : o \in frontier}
    IN IF direct \subseteq found THEN found
       ELSE Upstream(found \cup direct, direct \ found)

\* the task of the entrypoint template with this name
EntrypointTasksNamed(name) == {t \in EntrypointTemplate.tasks : t.name = name}

\* C24: once the pipeline function has run, with an S3 sensor configured the
\* step op of 'start' comes after the sensor op and every step op depends on
\* the sensor op, directly or through others, and in the compiled DAG the
\* task of 'start' depends on the sensor's task; with no S3 sensor there is
\* no sensor op, no sensor task and no dependency on one.
C24_SensorBeforeStart ==
    /\ (Wired /\ pc # "wire") =>
          IF deco.s3_sensor
          THEN /\ SensorName \in DOMAIN ops
               /\ SensorName \in StepOf(Start).after
               /\ \A n \in NodesOf(graph) :
                     SensorName \in Upstream({}, {visited[n]})
          ELSE \A o \in DOMAIN ops :
                  /\ o # SensorName
                  /\ ops[o].kind # "sensor"
                  /\ SensorName \notin DependsOn(ops, visited, o)
    /\ Compiled =>
          IF deco.s3_sensor
          THEN /\ EntrypointTasksNamed(sanitize_k8s_name(SensorName)) # {}
               /\ \A t \in EntrypointTasksNamed(sanitize_k8s_name(visited[Start])) :
                     sanitize_k8s_name(SensorName) \in t.dependencies
               /\ EntrypointTasksNamed(sanitize_k8s_name(visited[Start])) # {}
          ELSE \A i \in DOMAIN workflow.templates :
                  \A t \in workflow.templates[i].tasks :
                     /\ t.name # sanitize_k8s_name(SensorName)
                     /\ sanitize_k8s_name(SensorName) \notin t.dependencies

\* a flow with an S3 sensor and a foreach is compiled: the sensor's task is
\* in the DAG and the join of the foreach depends on the sensor through
\* other ops only
C24_Witness ==
    /\ Compiled
    /\ deco.s3_sensor
    /\ Foreaches # {}
    /\ EntrypointTasksNamed(sanitize_k8s_name(SensorName)) # {}
    /\ \E f \in Foreaches :
          /\ SensorName \notin DependsOn(ops, visited, visited[matching_join(graph, f)])
          /\ SensorName \in Upstream({}, {visited[matching_join(graph, f)]})

(* ---------------------------------------------------------------------- *)
(* The order of the calls to the cluster                                   *)
(* ---------------------------------------------------------------------- *)
\* the ConfigMaps on the cluster that a workflow's semaphore refers to
ConfigMapsOf(wf) ==
    {i \in DOMAIN argo.config_maps :
        /\ argo.config_maps[i].name = wf.semaphore.name
        /\ wf.semaphore.key \in DOMAIN argo.config_maps[i].data}

\* C27: run_workflow_on_argo submits the workflow only when the ConfigMap has
\* been created: every workflow on the cluster was submitted by a call that
\* created its ConfigMap first, the ConfigMap its semaphore refers to; the
\* call reaches the submission only with the ConfigMap created; and a call
\* that failed with no manifest, with a limit that is not positive, or with
\* no ConfigMap created, has submitted nothing.
C27_ConfigMapBeforeSubmit ==
    /\ argo.workflows # <<>> =>
          /\ call.method = "run_workflow_on_argo"
          /\ argo.workflows = <<workflow>>
          /\ Len(argo.config_maps) = 1
          /\ workflow.semaphore # None
          /\ ConfigMapsOf(workflow) # {}
    /\ pc = "submit" =>
          /\ Len(argo.config_maps) = 1
          /\ argo.workflows = <<>>
    /\ (workflow = NoWorkflow \/ NonPositiveLimit \/ argo.config_maps = <<>>) =>
          argo.workflows = <<>>

\* a run was submitted after its ConfigMap was created
C27_Witness ==
    /\ call.method = "run_workflow_on_argo"
    /\ pc = "done"
    /\ Len(argo.workflows) = 1
    /\ ConfigMapsOf(argo.workflows[1]) = {1}

(* ---------------------------------------------------------------------- *)
(* What weaving leaves in the entrypoint                                   *)
(* ---------------------------------------------------------------------- *)
\* the tasks of the exit-handler ops that were created
CreatedHandlerTasks ==
    {sanitize_k8s_name(o) : o \in {h \in DOMAIN ops : ops[h].kind = "handler"}}

\* the entrypoint's tasks as the KFP compiler made them
TasksBeforeWeaving == TasksAt(ops, loops, visited, <<>>)

\* the exit handlers have been woven into the workflow
Woven ==
    /\ CompilesFlow
    /\ self._exit_handler_created
    /\ \/ pc \in {"emit", "submit", "done"}
       \/ pc = "failed" /\ Compiled /\ workflow.onExit # None

\* C25: after weaving, the entrypoint template's tasks are the tasks it had
\* when compiled, less the tasks of the created exit handlers, each with its
\* dependencies unchanged: the task of every graph step, whatever the step's
\* name, and of every hook, volume and sensor node is still there.
C25_OnlyHandlersLeave ==
    Woven =>
        EntrypointTemplate.tasks =
            {t \in TasksBeforeWeaving : t.name \notin CreatedHandlerTasks}

(* ---------------------------------------------------------------------- *)
(* Termination of the compilation                                          *)
(* ---------------------------------------------------------------------- *)
\* whenever a node's successors declare a preceding component, the first
\* successor is one of them
HooksCallable ==
    \A n \in NodesOf(graph) :
        Range(graph.out_funcs[n]) \cap deco.hooks # {} =>
            graph.out_funcs[n][1] \in deco.hooks

\* write_workflow_kind is called, for a Workflow or a WorkflowTemplate, on a
\* flow whose decorators the compiler takes
WritesManifest ==
    /\ call.method = "write_workflow_kind"
    /\ call.kind \in {"Workflow", "WorkflowTemplate"}
    /\ ~HasUnsupported
    /\ ~BothFlagsOff
    /\ HooksCallable

\* the call has returned with the manifest written, every node compiled once
ManifestWritten ==
    /\ pc = "done"
    /\ err = "none"
    /\ files = <<workflow>>
    /\ workflow.kind = call.kind
    /\ stack = <<>>
    /\ \A n \in NodesOf(graph) : compiled[n] = 1

C21_VersionComputedOnce ==
    call.method = "get_environment_info" =>
        /\ get_version_calls <= 1
        /\ \A i \in DOMAIN env_infos :
              /\ env_infos[i].metaflow_version = env_infos[1].metaflow_version
              /\ env_infos[i].metaflow_version = version_cache
        /\ get_version_calls = (IF env_infos = <<>> THEN 0 ELSE 1)

\* three calls were made and get_version was called for the first only
C21_Witness ==
    /\ call.method = "get_environment_info"
    /\ Len(env_infos) = MaxCalls
    /\ get_version_calls = 1
    /\ version_cache \in Versions

(* ---------------------------------------------------------------------- *)
(* Triggering a workflow template                                          *)
(* ---------------------------------------------------------------------- *)
\* C26: trigger calls trigger_workflow_template only after
\* get_workflow_template has returned an existing template; when the lookup
\* raises or returns None nothing is triggered; and every failure of either
\* call ends the call with AIPException.
C26_TriggerOnlyExistingTemplate ==
    call.method = "trigger" =>
        /\ (\E i \in DOMAIN client.calls : client.calls[i] = "trigger_workflow_template") =>
              /\ client.calls = <<"get_workflow_template", "trigger_workflow_template">>
              /\ client.template = "found"
        /\ client.template \in {"raises", "none"} =>
              /\ client.calls = <<"get_workflow_template">>
              /\ ~client.triggered
              /\ pc = "failed"
        /\ pc = "failed" <=> err = "AIPException"
        /\ pc = "done" <=> client.triggered
        /\ pc \in {"start", "template", "done", "failed"}
        /\ pc = "template" => client.calls = <<"get_workflow_template">>
        /\ pc = "start" => client.calls = <<>>

\* the template was found and triggering it raised
C26_Witness ==
    /\ call.method = "trigger"
    /\ client.calls = <<"get_workflow_template", "trigger_workflow_template">>
    /\ client.template = "found"
    /\ pc = "failed"
    /\ err = "AIPException"

(* ---------------------------------------------------------------------- *)
(* The download of the code package                                        *)
(* ---------------------------------------------------------------------- *)
\* the shell has ended, with the task started or with a failure
PackageEnded == pc \in {"done", "failed"}

\* what holds at every point of the package commands
PackageSafe ==
    call.method = "get_package_commands" =>
        /\ shell.attempts <= MaxTry + 1
        /\ shell.job_tar =>
              /\ pc \in {"if", "tar", "task", "done"}
              /\ shell.attempts = shell.i[1] + 1
        /\ pc \in {"task", "done"} => shell.job_tar /\ shell.unpacked
        /\ shell.unpacked => shell.job_tar
        /\ shell.started => shell.unpacked /\ pc = "done"
        /\ pc = "done" => shell.started
        /\ (shell.attempts = MaxTry + 1 /\ ~shell.job_tar /\ PackageEnded) =>
              /\ pc = "failed"
              /\ shell.exit = <<1>>
              /\ ~shell.unpacked
              /\ ~shell.started
        /\ (pc = "failed") => shell.exit # None /\ ~shell.unpacked /\ ~shell.started

\* C30: the package commands try the download at most 6 times, leave the
\* loop at the first download that succeeds and then unpack the package;
\* when 6 downloads have failed they exit with 1 without unpacking and
\* without starting the task; and the shell always comes to its end.
C30_DownloadRetries ==
    /\ []PackageSafe
    /\ (call.method = "get_package_commands" /\ pc = "start") ~> PackageEnded

\* six downloads failed and the shell has exited with 1
C30_Witness ==
    /\ call.method = "get_package_commands"
    /\ shell.attempts = MaxTry + 1
    /\ ~shell.job_tar
    /\ pc = "failed"
    /\ shell.exit = <<1>>

(* ---------------------------------------------------------------------- *)
(* The exit handlers at the end of a run                                   *)
(* ---------------------------------------------------------------------- *)
\* C28: with the `when` the compiler gives the notify task and the handler
\* that runs under it, a run that ended Succeeded sends no email to the
\* notify-on-error address, and the handler sends at most one email.
C28_NoErrorEmailOnSuccess ==
    call.method = "exit_handler" =>
        /\ Len(pod.emails) <= 1
        /\ pod.status = "Succeeded" =>
              \A i \in DOMAIN pod.emails :
                 pod.emails[i] # OptionValue("METAFLOW_NOTIFY_ON_ERROR")

\* a run with both addresses configured, and the error address also in the
\* pod's environment, ended Succeeded and the success address was mailed
C28_Witness ==
    /\ call.method = "exit_handler"
    /\ pc = "done"
    /\ pod.status = "Succeeded"
    /\ self.notify /\ self.notify_on_success
    /\ pod.notify_on_error # None
    /\ pod.environ["METAFLOW_NOTIFY_ON_ERROR"] # None
    /\ pod.emails = <<OptionValue("METAFLOW_NOTIFY_ON_SUCCESS")>>

\* the SQS handler sent its message, or tried to and raised
SqsSendTried == pod.messages # <<>> \/ SqsHandlerName \in pod.raised

\* C29: once the handlers have run, the SQS handler has sent a message, or
\* has failed in sending it, if and only if --sqs-url-on-error was given and
\* the run did not end Succeeded; with no URL given nothing is sent.
C29_SqsMessageIffConfigured ==
    (call.method = "exit_handler" /\ pc = "done") =>
        /\ SqsSendTried <=> (self.sqs_url_on_error /\ pod.status # "Succeeded")
        /\ ~self.sqs_url_on_error => pod.messages = <<>>

\* what the handler does instead: it sends when the URL is in the
\* environment of its pod, which the compiler does not put there
C29_SentIffUrlInPod ==
    (call.method = "exit_handler" /\ pc = "done") =>
        /\ SqsSendTried <=> /\ self.sqs_url_on_error
                            /\ pod.status # "Succeeded"
                            /\ pod.environ["METAFLOW_SQS_URL_ON_ERROR"] # None
        /\ Len(pod.messages) <= 1
        /\ pod.messages # <<>> => SqsHandlerName \notin pod.raised

====
